---- MODULE Spec2Model ----
(***************************************************************************)
(* A model of codecrafters-git-rust: the pkt-line codec, the delta and     *)
(* pack decoders, the object model and store, the working-tree             *)
(* materializer and the clone command.  Bytes are integers 0..255 and      *)
(* byte strings are sequences of them.                                     *)
(***************************************************************************)
EXTENDS Integers, Sequences, FiniteSets, TLC

VARIABLES
    pc,            \* position of the running command
    build,         \* "debug" or "release": whether usize arithmetic is overflow-checked
    wire,          \* the whole HTTP response body (fixed at Init)
    rest,          \* bytes of the body the stream has not delivered yet
    lines,         \* PktLineStream.lines: a PktLines cursor [buf, pos]
    emitted,       \* lines returned by PktLineStream::next so far
    last,          \* the last PktLines::next call: [kind, before, after]
    restoreSelf,   \* GitObject::restore: self, the base object
    restoreDelta,  \* GitObject::restore: the delta
    restoreResult, \* GitObject::restore: what the call gave, [res, obj]
    packObjects,   \* expand_deltas: objects, the Vec<PackFileObject> it is given
    git_objects,   \* expand_deltas: git_objects
    deltas,        \* expand_deltas: deltas, an Option<Vec<DeltaPair>> [some, pairs]
    deltasLeft,    \* expand_deltas: the counts printed by "There are {} deltas left!"
    disk,          \* clone: the file system below root_dir, [dirs, files]
    refsBody,      \* clone: the body the server gives to GET info/refs
    requests,      \* clone: the HTTP requests made so far
    master_ref,    \* clone: master_ref, empty until discovery has found it
    packed_bytes,  \* clone: packed_bytes
    cloneObjects,  \* clone: objects, what PackFile::get_objects returned
    written,       \* clone: how many objects object.write has been called for
    materialized,  \* clone: how many objects FileTree::write has been called for
    error,         \* clone: the Err that run returned, "none" when it has not
    packFile,      \* PackFile::get_objects: the PackFile, [ok, num_objects, buf, pos]
    packRecords,   \* the records the sender put into the pack, each as its bytes
    opened,        \* GitObject::open_from_hash: the object asked for and what the call gave
    sent,          \* the pkt-lines a sender formats with Display, and the bytes they give
    deltaBytes,    \* Delta::new: the bytes under the cursor r
    deltaBase,     \* Delta::restore: buf, the bytes of the base
    deltaOut       \* Delta::restore: what the call gave, [call, ok, bytes]

pktVars == <<wire, rest, lines, emitted, last>>
restoreVars == <<restoreSelf, restoreDelta, restoreResult>>
deltaVars == <<packObjects, git_objects, deltas, deltasLeft>>
cloneVars == <<disk, refsBody, requests, master_ref, packed_bytes, cloneObjects, written,
               materialized, error>>
packVars == <<packFile, packRecords>>
storeVars == <<opened>>
encodeVars == <<sent>>
applyVars == <<deltaBytes, deltaBase, deltaOut>>
vars == <<pc, build, pktVars, restoreVars, deltaVars, cloneVars, packVars, storeVars, encodeVars,
          applyVars>>

-----------------------------------------------------------------------------
(* Sequence helpers *)

Min(a, b) == IF a < b THEN a ELSE b

Drop(s, n) == SubSeq(s, n + 1, Len(s))

Take(s, n) == SubSeq(s, 1, n)

\* the concatenation of ss[lo..hi], halving the range
RECURSIVE FlattenRange(_, _, _)
FlattenRange(ss, lo, hi) ==
    IF lo > hi THEN <<>>
    ELSE IF lo = hi THEN ss[lo]
    ELSE LET mid == (lo + hi) \div 2
         IN  FlattenRange(ss, lo, mid) \o FlattenRange(ss, mid + 1, hi)

Flatten(ss) == FlattenRange(ss, 1, Len(ss))

StartsWith(s, p) == Len(s) >= Len(p) /\ Take(s, Len(p)) = p

-----------------------------------------------------------------------------
(* git_protocol/pkt_line.rs *)

\* PktLine(Option<Vec<u8>>)
PktLineNew(bytes) == [some |-> TRUE, bytes |-> bytes]

PktLineFlush == [some |-> FALSE, bytes |-> <<>>]

PktLineSize(line) == IF line.some THEN Len(line.bytes) + 4 ELSE 0

PktLineSerialize(line) == IF line.some THEN line.bytes ELSE <<>>

\* Option<(&u8, &[u8])>: none for the flush line and for an empty payload
PktLineSplitFirst(line) ==
    IF line.some /\ line.bytes # <<>>
    THEN [some |-> TRUE, first |-> Head(line.bytes), rest |-> Tail(line.bytes)]
    ELSE [some |-> FALSE, first |-> 0, rest |-> <<>>]

\* one lowercase hexadecimal digit, as format!("{:x}") prints it
HexDigit(d) == IF d < 10 THEN 48 + d ELSE 87 + d

RECURSIVE HexStr(_)
HexStr(n) == IF n < 16 THEN <<HexDigit(n)>> ELSE HexStr(n \div 16) \o <<HexDigit(n % 16)>>

\* "{:04x}": at least four digits, zero padded
Hex04(n) ==
    LET s == HexStr(n)
    IN  [i \in 1..(IF Len(s) < 4 THEN 4 - Len(s) ELSE 0) |-> 48] \o s

\* String::from_utf8_lossy on bytes that are ASCII or stray high bytes:
\* a byte that is not valid UTF-8 becomes U+FFFD
Utf8Lossy(bytes) == [i \in 1..Len(bytes) |-> IF bytes[i] < 128 THEN bytes[i] ELSE 65533]

\* impl Display for PktLine
PktLineToString(line) == Hex04(PktLineSize(line)) \o Utf8Lossy(PktLineSerialize(line))

\* value of one hexadecimal digit as char::to_digit(16) reads it, -1 when it is none
HexVal(b) ==
    IF b >= 48 /\ b <= 57 THEN b - 48
    ELSE IF b >= 97 /\ b <= 102 THEN b - 87
    ELSE IF b >= 65 /\ b <= 70 THEN b - 55
    ELSE -1

RECURSIVE FromStrRadix16(_, _)
FromStrRadix16(digits, acc) ==
    IF digits = <<>> THEN acc
    ELSE IF HexVal(Head(digits)) < 0 THEN -1
    ELSE FromStrRadix16(Tail(digits), acc * 16 + HexVal(Head(digits)))

\* line_size: usize::from_str_radix(len_str, 16).expect(..); -1 stands for the
\* panic of expect.  from_str_radix takes one leading '+' before the digits.
line_size(buf) ==
    LET digits == IF Len(buf) > 1 /\ buf[1] = 43 THEN Tail(buf) ELSE buf
    IN  IF digits = <<>> THEN -1 ELSE FromStrRadix16(digits, 0)

PktLinesNew(buf) == [buf |-> buf, pos |-> 0]

PktLinesRemaining(l) == Drop(l.buf, l.pos)

\* PktLines::append that forgets the unread bytes of the old decoder
PktLinesAppendDropUnread(l, buf) == PktLinesNew(buf)

\* PktLines::append: a fresh decoder over the unread bytes followed by buf
PktLinesAppend(l, buf) == PktLinesNew(PktLinesRemaining(l) \o buf)

\* PktLines::next with the rewind of the length prefix left out
PktLinesNextNoRewind(l, checked) ==
    IF Len(PktLinesRemaining(l)) < 4
    THEN [kind |-> "none", line |-> PktLineFlush, lines |-> l]
    ELSE LET read4    == [l EXCEPT !.pos = l.pos + 4]
             line_len == line_size(SubSeq(l.buf, l.pos + 1, l.pos + 4))
         IN  IF line_len < 0
             THEN [kind |-> "panic", line |-> PktLineFlush, lines |-> read4]
             ELSE IF line_len = 0
             THEN [kind |-> "flush", line |-> PktLineFlush, lines |-> read4]
             ELSE IF line_len < 4 /\ checked
             THEN [kind |-> "panic", line |-> PktLineFlush, lines |-> read4]
             ELSE IF line_len < 4 \/ Len(PktLinesRemaining(read4)) < line_len - 4
             THEN [kind |-> "none", line |-> PktLineFlush, lines |-> read4]
             ELSE [kind  |-> "line",
                   line  |-> PktLineNew(SubSeq(l.buf, read4.pos + 1, read4.pos + line_len - 4)),
                   lines |-> [read4 EXCEPT !.pos = read4.pos + line_len - 4]]

\* impl Iterator for PktLines: next.  `checked` says whether `line_len - 4`
\* panics on underflow (debug build) or wraps to a length no buffer has
\* (release build).  Result: kind "line" | "flush" | "none" | "panic", the
\* line and the decoder afterwards.
PktLinesNext(l, checked) ==
    IF Len(PktLinesRemaining(l)) < 4
    THEN [kind |-> "none", line |-> PktLineFlush, lines |-> l]
    ELSE LET read4    == [l EXCEPT !.pos = l.pos + 4]
             line_len == line_size(SubSeq(l.buf, l.pos + 1, l.pos + 4))
         IN  IF line_len < 0
             THEN [kind |-> "panic", line |-> PktLineFlush, lines |-> read4]
             ELSE IF line_len = 0
             THEN [kind |-> "flush", line |-> PktLineFlush, lines |-> read4]
             ELSE IF line_len < 4 /\ checked
             THEN [kind |-> "panic", line |-> PktLineFlush, lines |-> read4]
             ELSE IF line_len < 4 \/ Len(PktLinesRemaining(read4)) < line_len - 4
             THEN [kind |-> "none", line |-> PktLineFlush,
                   lines |-> [read4 EXCEPT !.pos = read4.pos - 4]]
             ELSE [kind  |-> "line",
                   line  |-> PktLineNew(SubSeq(l.buf, read4.pos + 1, read4.pos + line_len - 4)),
                   lines |-> [read4 EXCEPT !.pos = read4.pos + line_len - 4]]

\* a PktLines decoder drained by repeated next(), as Iterator::collect does
RECURSIVE PktLinesCollect(_, _)
PktLinesCollect(l, checked) ==
    LET r == PktLinesNext(l, checked)
    IN  IF r.kind \in {"line", "flush"}
        THEN <<r.line>> \o PktLinesCollect(r.lines, checked)
        ELSE <<>>

-----------------------------------------------------------------------------
(* git_protocol/mod.rs and git_protocol/delta.rs *)

\* msb_is_1: byte & 0b10000000 == 0b10000000
msb_is_1(byte) == byte >= 128

\* byte & MASK_LAST_7
Last7(byte) == byte % 128

\* byte & mask == mask, for a mask of one bit
HasBit(byte, mask) == (byte \div mask) % 2 = 1

\* A reader over a byte sequence is the sequence and the count of bytes read.
\* Results carry ok = FALSE for the panic of read_one / read_exact at the end.

\* get_length's loop: every continuation byte is added at shift 7
RECURSIVE GetLengthLoop(_, _, _, _)
GetLengthLoop(bytes, pos, byte, len) ==
    IF ~msb_is_1(byte) THEN [ok |-> TRUE, val |-> len, pos |-> pos]
    ELSE IF pos >= Len(bytes) THEN [ok |-> FALSE, val |-> len, pos |-> pos]
    ELSE GetLengthLoop(bytes, pos + 1, bytes[pos + 1], len + Last7(bytes[pos + 1]) * 128)

get_length(bytes, pos) ==
    IF pos >= Len(bytes) THEN [ok |-> FALSE, val |-> 0, pos |-> pos]
    ELSE GetLengthLoop(bytes, pos + 1, bytes[pos + 1], Last7(bytes[pos + 1]))

Copy(offset, size) == [op |-> "copy", offset |-> offset, size |-> size, bytes |-> <<>>]

Insert(bytes) == [op |-> "insert", offset |-> 0, size |-> 0, bytes |-> bytes]

\* read_size(mask, shift) applied for each (mask, shift) of ms in turn:
\* one byte is read for every mask whose bit is set in `byte`
RECURSIVE ReadSizes(_, _, _, _, _)
ReadSizes(bytes, pos, byte, ms, acc) ==
    IF ms = <<>> THEN [ok |-> TRUE, val |-> acc, pos |-> pos]
    ELSE IF ~HasBit(byte, Head(ms)[1]) THEN ReadSizes(bytes, pos, byte, Tail(ms), acc)
    ELSE IF pos >= Len(bytes) THEN [ok |-> FALSE, val |-> acc, pos |-> pos]
    ELSE ReadSizes(bytes, pos + 1, byte, Tail(ms), acc + bytes[pos + 1] * Head(ms)[2])

\* get_delta_offset: masks 0x01, 0x02, 0x04, 0x08 at shifts 0, 8, 16, 24
get_delta_offset(bytes, pos, byte) ==
    ReadSizes(bytes, pos, byte, << <<1, 1>>, <<2, 256>>, <<4, 65536>>, <<8, 16777216>> >>, 0)

\* get_delta_size: masks 0x10, 0x20, 0x40 at shifts 0, 8, 16
get_delta_size(bytes, pos, byte) ==
    ReadSizes(bytes, pos, byte, << <<16, 1>>, <<32, 256>>, <<64, 65536>> >>, 0)

\* Instruction::new(byte, r), r at pos
InstructionNew(bytes, pos, byte) ==
    IF msb_is_1(byte)
    THEN LET offset == get_delta_offset(bytes, pos, byte)
             size   == get_delta_size(bytes, offset.pos, byte)
         IN  [ok  |-> offset.ok /\ size.ok,
              val |-> Copy(offset.val, size.val),
              pos |-> size.pos]
    ELSE LET len == Last7(byte)
         IN  [ok  |-> pos + len <= Len(bytes),
              val |-> Insert(SubSeq(bytes, pos + 1, Min(pos + len, Len(bytes)))),
              pos |-> pos + len]

RECURSIVE ReadInstructions(_, _, _)
ReadInstructions(bytes, pos, acc) ==
    IF pos >= Len(bytes) THEN [ok |-> TRUE, val |-> acc]
    ELSE LET inst == InstructionNew(bytes, pos + 1, bytes[pos + 1])
         IN  IF ~inst.ok THEN [ok |-> FALSE, val |-> acc]
             ELSE ReadInstructions(bytes, inst.pos, Append(acc, inst.val))

\* Delta::new over a whole buffer (the cursor PackFile::next makes for it)
DeltaNew(bytes) ==
    LET base_size   == get_length(bytes, 0)
        target_size == get_length(bytes, base_size.pos)
        insts       == ReadInstructions(bytes, target_size.pos, <<>>)
    IN  [ok  |-> base_size.ok /\ target_size.ok /\ insts.ok,
         val |-> [base_size    |-> base_size.val,
                  target_size  |-> target_size.val,
                  instructions |-> insts.val]]

\* Delta::restore; ok = FALSE is the panic of a Copy slice outside buf
RECURSIVE RestoreLoop(_, _, _)
RestoreLoop(insts, buf, result) ==
    IF insts = <<>> THEN [ok |-> TRUE, bytes |-> result]
    ELSE LET inst == Head(insts)
         IN  IF inst.op = "copy"
             THEN IF inst.offset + inst.size > Len(buf)
                  THEN [ok |-> FALSE, bytes |-> result]
                  ELSE RestoreLoop(Tail(insts), buf,
                                   result \o SubSeq(buf, inst.offset + 1, inst.offset + inst.size))
             ELSE RestoreLoop(Tail(insts), buf, result \o inst.bytes)

\* Delta::restore that takes the instructions from the last to the first
DeltaRestoreLastFirst(delta, buf) ==
    RestoreLoop([i \in 1..Len(delta.instructions) |->
                    delta.instructions[Len(delta.instructions) + 1 - i]], buf, <<>>)

DeltaRestore(delta, buf) == RestoreLoop(delta.instructions, buf, <<>>)

-----------------------------------------------------------------------------
(* hash.rs *)

SHA1_HASH_SIZE == 20

\* a checksum of bytes[lo..hi] that weighs each byte by its place
RECURSIVE Checksum(_, _, _, _, _)
Checksum(bytes, lo, hi, mul, modulus) ==
    IF lo > hi THEN 0
    ELSE IF lo = hi THEN ((bytes[lo] + 1) * (((lo * mul) % 251) + 1)) % modulus
    ELSE LET mid == (lo + hi) \div 2
         IN  (Checksum(bytes, lo, mid, mul, modulus)
                + Checksum(bytes, mid + 1, hi, mul, modulus)) % modulus

\* Sha1::new().chain_update(bytes).finalize(): a digest of SHA1_HASH_SIZE
\* bytes.  SHA-1 itself is stood in for by two position-weighted checksums
\* spread over the digest; the specifications that compare digests check
\* that the stand-in tells apart all the objects a run meets.
Sha1(bytes) ==
    LET f1 == (Checksum(bytes, 1, Len(bytes), 31, 65521) + Len(bytes)) % 65521
        f2 == (Checksum(bytes, 1, Len(bytes), 17, 65519) + 7 * Len(bytes)) % 65519
    IN  [i \in 1..SHA1_HASH_SIZE |->
            CASE i = 1 -> f1 \div 256
              [] i = 2 -> f1 % 256
              [] i = 3 -> f2 \div 256
              [] i = 4 -> f2 % 256
              [] OTHER -> (f1 + i * f2) % 256]

\* Sha1Hash::hex: hex::encode, two lowercase digits a byte
HashHex(hash) ==
    Flatten([i \in 1..Len(hash) |-> <<HexDigit(hash[i] \div 16), HexDigit(hash[i] % 16)>>])

-----------------------------------------------------------------------------
(* Strings: a String is a sequence of code points *)

\* String::into_bytes / as_bytes (UTF-8) for ASCII and U+FFFD
StrBytes(str) ==
    Flatten([i \in 1..Len(str) |-> IF str[i] = 65533 THEN <<239, 191, 189>> ELSE <<str[i]>>])

RECURSIVE DecStr(_)
\* format!("{}", n) of a non-negative integer
DecStr(n) == IF n < 10 THEN <<48 + n>> ELSE DecStr(n \div 10) \o <<48 + (n % 10)>>

IsDigit(c) == c >= 48 /\ c <= 57

RECURSIVE DecVal(_, _)
DecVal(digits, acc) ==
    IF digits = <<>> THEN acc
    ELSE IF ~IsDigit(Head(digits)) THEN -1
    ELSE DecVal(Tail(digits), acc * 10 + (Head(digits) - 48))

\* str::parse::<usize>(): digits after one optional '+'; -1 stands for Err
ParseUsize(str) ==
    LET digits == IF Len(str) > 1 /\ str[1] = 43 THEN Tail(str) ELSE str
    IN  IF digits = <<>> THEN -1 ELSE DecVal(digits, 0)

Least(S) == CHOOSE x \in S : \A y \in S : x <= y

\* bytes.iter().position(|&b| b == byte), 0-based; -1 stands for None
Position(bytes, byte) ==
    LET found == { i \in 1..Len(bytes) : bytes[i] = byte }
    IN  IF found = {} THEN -1 ELSE Least(found) - 1

zero_position(bytes) == Position(bytes, 0)

space_position(bytes) == Position(bytes, 32)

\* bytes.split(|&b| b == sep): the pieces between separators, empty ones kept
SplitOn(bytes, sep) ==
    LET seps   == { i \in 1..Len(bytes) : bytes[i] = sep }
        nth(k) == IF k = 0 THEN 0
                  ELSE IF k > Cardinality(seps) THEN Len(bytes) + 1
                  ELSE CHOOSE i \in seps : Cardinality({ j \in seps : j < i }) = k - 1
    IN  [k \in 1..(Cardinality(seps) + 1) |-> SubSeq(bytes, nth(k - 1) + 1, nth(k) - 1)]

-----------------------------------------------------------------------------
(* git_object/tree.rs *)

MODE_DIR == 40000
MODE_FILE == 100644
MODE_SYML == 120000
MODE_EXEC == 100755

\* `self.mode as isize`
ModeNumber(mode) ==
    CASE mode = "File" -> MODE_FILE
      [] mode = "Directory" -> MODE_DIR
      [] mode = "Symlink" -> MODE_SYML
      [] mode = "Executable" -> MODE_EXEC

TreeNode(mode, name, hash) == [mode |-> mode, name |-> name, hash |-> hash]

\* TreeNode::serialize
TreeNodeSerialize(node) ==
    DecStr(ModeNumber(node.mode)) \o <<32>> \o StrBytes(node.name) \o <<0>> \o node.hash

TreeNodeLen(node) == Len(TreeNodeSerialize(node))

\* str::parse::<isize>() of the mode: digits after one optional sign
ParseMode(str) ==
    LET signed == Len(str) > 1 /\ str[1] \in {43, 45}
        digits == IF signed THEN Tail(str) ELSE str
        val    == IF digits = <<>> THEN -1 ELSE DecVal(digits, 0)
    IN  IF val < 0 THEN -1
        ELSE IF signed /\ str[1] = 45 THEN (IF val = 0 THEN 0 ELSE -1)
        ELSE val

\* TreeNode::new(buf): ok = FALSE is a panic (no space, unknown mode)
TreeNodeNew(buf) ==
    LET sp_pos   == space_position(buf)
        zero_pos == zero_position(buf)
        mode_num == IF sp_pos < 0 THEN -1 ELSE ParseMode(Utf8Lossy(Take(buf, sp_pos)))
        mode     == CASE mode_num = MODE_FILE -> "File"
                      [] mode_num = MODE_DIR -> "Directory"
                      [] mode_num = MODE_SYML -> "Symlink"
                      [] mode_num = MODE_EXEC -> "Executable"
                      [] OTHER -> "Unknown"
    IN  IF sp_pos < 0 \/ zero_pos < 0 \/ mode = "Unknown" \/ sp_pos + 1 > zero_pos
        THEN [ok |-> FALSE, val |-> TreeNode("Unknown", <<>>, <<>>)]
        ELSE [ok  |-> Len(buf) - (zero_pos + 1) = SHA1_HASH_SIZE,
              val |-> TreeNode(mode,
                               Utf8Lossy(SubSeq(buf, sp_pos + 2, zero_pos)),
                               Drop(buf, zero_pos + 1))]

\* TreeRecords collected: iteration ends at the first None (no \0 left, or
\* fewer bytes left than the record needs); ok = FALSE is a panic of TreeNode::new
RECURSIVE TreeRecordsCollect(_, _, _)
TreeRecordsCollect(bytes, current, acc) ==
    LET zero_pos  == zero_position(Drop(bytes, current))
        tree_size == zero_pos + SHA1_HASH_SIZE + 1
    IN  IF zero_pos < 0 \/ current + tree_size > Len(bytes)
        THEN [ok |-> TRUE, val |-> acc]
        ELSE LET node == TreeNodeNew(SubSeq(bytes, current + 1, current + tree_size))
             IN  IF ~node.ok THEN [ok |-> FALSE, val |-> acc]
                 ELSE TreeRecordsCollect(bytes, current + tree_size, Append(acc, node.val))

-----------------------------------------------------------------------------
(* git_object/commit.rs *)

User(name, email, timestamp, timezone) ==
    [name |-> name, email |-> email, timestamp |-> timestamp, timezone |-> timezone]

NoUser == User(<<>>, <<>>, 0, <<>>)

\* impl Display for User: "{} <{}> {} {}"
UserToString(user) ==
    user.name \o <<32, 60>> \o user.email \o <<62, 32>> \o DecStr(user.timestamp)
        \o <<32>> \o user.timezone

\* length of the run of digits of str that starts at index k
RECURSIVE DigitRun(_, _)
DigitRun(str, k) ==
    IF k > Len(str) \/ ~IsDigit(str[k]) THEN 0 ELSE 1 + DigitRun(str, k + 1)

\* `(?<timestamp>\d+) (?<timezone>.+)` matches str from index k on
UserTailAt(str, k) ==
    LET run == DigitRun(str, k)
    IN  run >= 1 /\ k + run + 1 <= Len(str) /\ str[k + run] = 32

\* the indexes j of a "> " that can close the email opened by the " <" at i
EmailCloses(str, i) ==
    { j \in (i + 3)..(Len(str) - 1) : str[j] = 62 /\ str[j + 1] = 32 /\ UserTailAt(str, j + 2) }

\* the indexes i of a " <" that can end the name
NameEnds(str) ==
    { i \in 2..(Len(str) - 1) : str[i] = 32 /\ str[i + 1] = 60 /\ EmailCloses(str, i) # {} }

Greatest(S) == CHOOSE x \in S : \A y \in S : y <= x

\* impl From<&[u8]> for User: the regex
\* (?<name>.+) <(?<email>.+)> (?<timestamp>\d+) (?<timezone>.+) with greedy
\* groups; ok = FALSE is the panic of captures(..).unwrap()
UserFrom(bytes) ==
    LET str == Utf8Lossy(bytes)
    IN  IF NameEnds(str) = {} THEN [ok |-> FALSE, val |-> NoUser]
        ELSE LET i   == Greatest(NameEnds(str))
                 j   == Greatest(EmailCloses(str, i))
                 run == DigitRun(str, j + 2)
             IN  [ok  |-> TRUE,
                  val |-> User(SubSeq(str, 1, i - 1),
                               SubSeq(str, i + 2, j - 1),
                               DecVal(SubSeq(str, j + 2, j + 1 + run), 0),
                               Drop(str, j + 2 + run))]

CommitOf(tree, parents, author, committer, comment) ==
    [tree |-> tree, parents |-> parents, comment |-> comment,
     author |-> author, committer |-> committer]

NoCommit == CommitOf(<<>>, <<>>, NoUser, NoUser, <<>>)

\* Commit::serialize
CommitSerialize(commit) ==
    StrBytes(
        <<116, 114, 101, 101, 32>> \o commit.tree \o <<10>>
        \o Flatten([i \in 1..Len(commit.parents) |->
               <<112, 97, 114, 101, 110, 116, 32>> \o commit.parents[i] \o <<10>>])
        \o <<97, 117, 116, 104, 111, 114, 32>> \o UserToString(commit.author) \o <<10>>
        \o <<99, 111, 109, 109, 105, 116, 116, 101, 114, 32>>
        \o UserToString(commit.committer) \o <<10>>
        \o <<10>> \o commit.comment \o <<10>>)

CommitLen(commit) == Len(CommitSerialize(commit))

\* the `while line.starts_with(b"parent")` loop of Commit::from_bytes over
\* the split pieces, from piece i on; then author, committer, the skipped
\* line and the comment.  ok = FALSE is a panic (unwrap of a missing line, a
\* slice past the end of a line, a signature the regex does not match).
RECURSIVE CommitFromLines(_, _, _, _)
CommitFromLines(ls, i, tree, parents) ==
    IF i > Len(ls) THEN [ok |-> FALSE, val |-> NoCommit]
    ELSE IF StartsWith(ls[i], <<112, 97, 114, 101, 110, 116>>)
    THEN IF Len(ls[i]) < 7 THEN [ok |-> FALSE, val |-> NoCommit]
         ELSE CommitFromLines(ls, i + 1, tree, Append(parents, Utf8Lossy(Drop(ls[i], 7))))
    ELSE IF Len(ls[i]) < 7 \/ i + 3 > Len(ls) \/ Len(ls[i + 1]) < 10
    THEN [ok |-> FALSE, val |-> NoCommit]
    ELSE LET author    == UserFrom(Drop(ls[i], 7))
             committer == UserFrom(Drop(ls[i + 1], 10))
         IN  [ok  |-> author.ok /\ committer.ok,
              val |-> CommitOf(tree, parents, author.val, committer.val, Utf8Lossy(ls[i + 3]))]

\* Commit::from_bytes
CommitFromBytes(bytes) ==
    LET ls == SplitOn(bytes, 10)
    IN  IF Len(ls[1]) < 5 THEN [ok |-> FALSE, val |-> NoCommit]
        ELSE CommitFromLines(ls, 2, Utf8Lossy(Drop(ls[1], 5)), <<>>)

-----------------------------------------------------------------------------
(* git_object/mod.rs *)

\* enum GitObject { Blob(Blob), Tree(Vec<TreeNode>), Commit(Box<Commit>) }
Blob(bytes) == [kind |-> "blob", blob |-> bytes, trees |-> <<>>, commit |-> NoCommit]

Tree(trees) == [kind |-> "tree", blob |-> <<>>, trees |-> trees, commit |-> NoCommit]

Commit(commit) == [kind |-> "commit", blob |-> <<>>, trees |-> <<>>, commit |-> commit]

\* GitObject::serialize
Serialize(obj) ==
    CASE obj.kind = "blob" -> obj.blob
      [] obj.kind = "tree" -> Flatten([i \in 1..Len(obj.trees) |-> TreeNodeSerialize(obj.trees[i])])
      [] obj.kind = "commit" -> CommitSerialize(obj.commit)

\* GitObject::size that gives the count of entries for a tree
SizeCountsEntries(obj) ==
    CASE obj.kind = "blob" -> Len(obj.blob)
      [] obj.kind = "tree" -> Len(obj.trees)
      [] obj.kind = "commit" -> CommitLen(obj.commit)

RECURSIVE SumLens(_)
SumLens(nodes) == IF nodes = <<>> THEN 0 ELSE TreeNodeLen(Head(nodes)) + SumLens(Tail(nodes))

\* GitObject::size
Size(obj) ==
    CASE obj.kind = "blob" -> Len(obj.blob)
      [] obj.kind = "tree" -> SumLens(obj.trees)
      [] obj.kind = "commit" -> CommitLen(obj.commit)

\* GitObject::header: "blob {size}\0", "tree {size}\0", "commit {size}\0"
Header(obj) ==
    (CASE obj.kind = "blob" -> <<98, 108, 111, 98>>
       [] obj.kind = "tree" -> <<116, 114, 101, 101>>
       [] obj.kind = "commit" -> <<99, 111, 109, 109, 105, 116>>)
    \o <<32>> \o DecStr(Size(obj)) \o <<0>>

\* GitObject::hash, lines 59-73: what the hasher is fed, update by update
HashUpdates(obj) ==
    <<Header(obj)>>
    \o (CASE obj.kind = "blob" -> <<obj.blob>>
          [] obj.kind = "tree" -> [i \in 1..Len(obj.trees) |-> TreeNodeSerialize(obj.trees[i])]
          [] obj.kind = "commit" -> <<CommitSerialize(obj.commit)>>)

\* GitObject::hash: the digest of all the hasher was fed
Hash(obj) == Sha1(Flatten(HashUpdates(obj)))

NoObject == Blob(<<>>)

\* GitObject::new(data).  res: "ok", "err" (an Err returned) or "panic"
\* (a slice out of range, a panic of the tree or commit parser, unimplemented!())
GitObjectNew(data) ==
    LET zero_pos == zero_position(data)
        payload  == Drop(data, zero_pos + 1)
    IN  IF StartsWith(data, <<98, 108, 111, 98>>)
        THEN IF zero_pos < 0 THEN [res |-> "err", obj |-> NoObject]
             ELSE IF zero_pos < 5 THEN [res |-> "panic", obj |-> NoObject]
             ELSE LET digits == SubSeq(data, 6, zero_pos)
                      size   == IF \E i \in 1..Len(digits) : digits[i] >= 128
                                THEN -1 ELSE ParseUsize(digits)
                  IN  IF size < 0 THEN [res |-> "err", obj |-> NoObject]
                      ELSE IF zero_pos + 1 + size > Len(data)
                      THEN [res |-> "panic", obj |-> NoObject]
                      ELSE [res |-> "ok",
                            obj |-> Blob(SubSeq(data, zero_pos + 2, zero_pos + 1 + size))]
        ELSE IF StartsWith(data, <<116, 114, 101, 101>>)
        THEN IF zero_pos < 0 THEN [res |-> "err", obj |-> NoObject]
             ELSE LET trees == TreeRecordsCollect(payload, 0, <<>>)
                  IN  IF trees.ok THEN [res |-> "ok", obj |-> Tree(trees.val)]
                      ELSE [res |-> "panic", obj |-> NoObject]
        ELSE IF StartsWith(data, <<99, 111, 109, 109, 105, 116>>)
        THEN IF zero_pos < 0 THEN [res |-> "err", obj |-> NoObject]
             ELSE LET commit == CommitFromBytes(payload)
                  IN  IF commit.ok THEN [res |-> "ok", obj |-> Commit(commit.val)]
                      ELSE [res |-> "panic", obj |-> NoObject]
        ELSE [res |-> "panic", obj |-> NoObject]

\* GitObject::restore(delta): the header of self, then delta.restore of the
\* payload of self, parsed by GitObject::new
GitObjectRestore(obj, delta) ==
    LET restored == DeltaRestore(delta, Serialize(obj))
    IN  IF ~restored.ok THEN [res |-> "panic", obj |-> NoObject]
        ELSE GitObjectNew(Header(obj) \o restored.bytes)

-----------------------------------------------------------------------------
(* git_protocol/pack_file.rs: PackFileObject, group_objects, expand_deltas *)

NoDelta == [base_size |-> 0, target_size |-> 0, instructions |-> <<>>]

\* enum PackFileObject { GitObject(GitObject), RefDelta { basename, delta } }
PackGitObject(obj) ==
    [kind |-> "object", obj |-> obj, basename |-> <<>>, delta |-> NoDelta]

PackRefDelta(basename, delta) ==
    [kind |-> "refdelta", obj |-> NoObject, basename |-> basename, delta |-> delta]

IsGitObject(object) == object.kind = "object"

IsRefDelta(object) == object.kind = "refdelta"

\* type DeltaPair = (Sha1Hash, Delta)
DeltaPair(basename, delta) == [basename |-> basename, delta |-> delta]

\* Option<Vec<DeltaPair>>
SomePairs(pairs) == [some |-> TRUE, pairs |-> pairs]

NoPairs == [some |-> FALSE, pairs |-> <<>>]

\* group_objects: the objects and the delta pairs, each in pack order
group_objects(objects) ==
    LET objs == SelectSeq(objects, IsGitObject)
        dels == SelectSeq(objects, IsRefDelta)
    IN  [git_objects |-> [i \in 1..Len(objs) |-> objs[i].obj],
         delta_pairs |-> [i \in 1..Len(dels) |-> DeltaPair(dels[i].basename, dels[i].delta)]]

\* expand_deltas, lines 217-221
InitialDeltas(delta_pairs) ==
    IF delta_pairs = <<>> THEN NoPairs ELSE SomePairs(delta_pairs)

\* expand_deltas, the `for (hash, delta) in pairs` loop from pair i on: a
\* pair whose base is among objs (the first object with that hash) is
\* restored and pushed, the others go to next_pairs.  res = "panic" is the
\* expect on restore, or a panic inside it.
RECURSIVE ExpandPairs(_, _, _, _)
ExpandPairs(pairs, i, objs, next_pairs) ==
    IF i > Len(pairs)
    THEN [res |-> "ok", git_objects |-> objs, next_pairs |-> next_pairs]
    ELSE LET found == { k \in 1..Len(objs) : Hash(objs[k]) = pairs[i].basename }
         IN  IF found = {}
             THEN ExpandPairs(pairs, i + 1, objs, Append(next_pairs, pairs[i]))
             ELSE LET restored == GitObjectRestore(objs[Least(found)], pairs[i].delta)
                  IN  IF restored.res # "ok"
                      THEN [res |-> "panic", git_objects |-> objs, next_pairs |-> next_pairs]
                      ELSE ExpandPairs(pairs, i + 1, Append(objs, restored.obj), next_pairs)

\* a round that is never taken to have made no progress
NoProgressNever(next_pairs, pairs_len) == FALSE

\* expand_deltas, line 238: the round resolved nothing
NoProgress(next_pairs, pairs_len) == Len(next_pairs) = pairs_len

\* expand_deltas, lines 245-249: what is left pending for the next round
RemainingDeltas(next_pairs) ==
    IF Len(next_pairs) <= 1 THEN NoPairs ELSE SomePairs(next_pairs)

\* expand_deltas, lines 238-249: what a round comes to once its pairs are
\* gone through with outcome r
RoundOutcome(r, pairs_len) ==
    IF r.res = "panic" \/ NoProgress(r.next_pairs, pairs_len)
    THEN [res |-> "panic", git_objects |-> r.git_objects, deltas |-> NoPairs]
    ELSE [res |-> "ok", git_objects |-> r.git_objects,
          deltas |-> RemainingDeltas(r.next_pairs)]

\* one pass of the `while deltas.is_some()` loop
ExpandRound(objs, pairs) == RoundOutcome(ExpandPairs(pairs, 1, objs, <<>>), Len(pairs))

\* the loop after a round with outcome r
RECURSIVE ExpandLoop(_, _)
ExpandAfter(r) ==
    IF r.res = "panic" THEN [res |-> "panic", git_objects |-> r.git_objects]
    ELSE ExpandLoop(r.git_objects, r.deltas)

ExpandLoop(objs, pending) ==
    IF ~pending.some THEN [res |-> "ok", git_objects |-> objs]
    ELSE ExpandAfter(ExpandRound(objs, pending.pairs))

\* expand_deltas as one call
expand_deltas(objects) ==
    LET grouped == group_objects(objects)
    IN  ExpandLoop(grouped.git_objects, InitialDeltas(grouped.delta_pairs))

-----------------------------------------------------------------------------
(* git_protocol/pack_file.rs: PackFile, the reader of a pack *)

\* flate2's zlib stream, stood in for by a container that ends where its
\* data ends: the first byte of a zlib header, the length of the data, the data
ZlibEncode(data) == <<120, Len(data)>> \o data

\* ZlibDecoder::read_to_end over a whole file; ok = FALSE is an Err
ZlibDecode(content) ==
    IF Len(content) >= 2 /\ content[1] = 120 /\ Len(content) = content[2] + 2
    THEN [ok |-> TRUE, data |-> Drop(content, 2)]
    ELSE [ok |-> FALSE, data |-> <<>>]

\* PackFile::read_zlib that moves the cursor by the bytes it gave, not by
\* the bytes the decoder took in
ReadZlibByOutput(buf, pos, len) ==
    IF pos + 2 > Len(buf) \/ buf[pos + 1] # 120
    THEN [ok |-> FALSE, data |-> <<>>, pos |-> pos]
    ELSE IF Min(buf[pos + 2], Len(buf) - (pos + 2)) < len
    THEN [ok |-> FALSE, data |-> <<>>, pos |-> pos]
    ELSE [ok   |-> TRUE,
          data |-> SubSeq(buf, pos + 3, pos + 2 + len),
          pos  |-> pos + len]

\* PackFile::read_zlib(buf) with buf of len bytes, the cursor at pos.
\* ok = FALSE is one of its panics (not a zlib stream, fewer than len bytes
\* in it).  The cursor moves past what the decoder took in: the whole stream
\* when it gave len bytes, the part that filled buf when it holds more.
read_zlib(buf, pos, len) ==
    IF pos + 2 > Len(buf) \/ buf[pos + 1] # 120
    THEN [ok |-> FALSE, data |-> <<>>, pos |-> pos]
    ELSE IF Min(buf[pos + 2], Len(buf) - (pos + 2)) < len
    THEN [ok |-> FALSE, data |-> <<>>, pos |-> pos]
    ELSE [ok   |-> TRUE,
          data |-> SubSeq(buf, pos + 3, pos + 2 + len),
          pos  |-> pos + 2 + len]

\* ObjectType::new: (byte & MASK_OBJECT_TYPE) >> 4
ObjectTypeNew(byte) ==
    LET n == (byte \div 16) % 8
    IN  CASE n = 1 -> "Commit"
          [] n = 2 -> "Tree"
          [] n = 3 -> "Blob"
          [] n = 4 -> "Tag"
          [] n = 6 -> "OfsDelta"
          [] n = 7 -> "RefDelta"
          [] OTHER -> "Unknown"

\* u32::from_be_bytes
FromBeBytes(b) == ((b[1] * 256 + b[2]) * 256 + b[3]) * 256 + b[4]

\* PackFile::new: the count of objects from bytes[8..12], the cursor over
\* bytes[12..]; ok = FALSE is the panic of the slice of a shorter buffer
PackFileNew(bytes) ==
    IF Len(bytes) < 12 THEN [ok |-> FALSE, num_objects |-> 0, buf |-> <<>>, pos |-> 0]
    ELSE [ok          |-> TRUE,
          num_objects |-> FromBeBytes(SubSeq(bytes, 9, 12)),
          buf         |-> Drop(bytes, 12),
          pos         |-> 0]

\* read_object_header's while loop: 7 more bits of the length a byte
RECURSIVE ReadHeaderLoop(_, _, _, _, _)
ReadHeaderLoop(buf, pos, byte, len, shifted) ==
    IF ~msb_is_1(byte) THEN [ok |-> TRUE, len |-> len, pos |-> pos]
    ELSE IF pos >= Len(buf) THEN [ok |-> FALSE, len |-> len, pos |-> pos]
    ELSE ReadHeaderLoop(buf, pos + 1, buf[pos + 1],
                        len + Last7(buf[pos + 1]) * shifted, shifted * 128)

\* PackFile::read_object_header: kind "none" (no object left), "some", or
\* "panic" (read_one at the end of the pack)
read_object_header(pack) ==
    IF pack.num_objects = 0
    THEN [kind |-> "none", len |-> 0, obj_type |-> "Unknown", pos |-> pack.pos]
    ELSE IF pack.pos >= Len(pack.buf)
    THEN [kind |-> "panic", len |-> 0, obj_type |-> "Unknown", pos |-> pack.pos]
    ELSE LET byte == pack.buf[pack.pos + 1]
             size == ReadHeaderLoop(pack.buf, pack.pos + 1, byte, byte % 16, 16)
         IN  [kind     |-> IF size.ok THEN "some" ELSE "panic",
              len      |-> size.len,
              obj_type |-> ObjectTypeNew(byte),
              pos      |-> size.pos]

NoPackObject == PackGitObject(NoObject)

\* PackFileObject::undeltified on the bytes z that read_zlib gave; the
\* parsers of commits and trees may panic
Undeltified(pack, obj_type, z) ==
    LET commit == CommitFromBytes(z.data)
        trees  == TreeRecordsCollect(z.data, 0, <<>>)
        good   == /\ z.ok
                  /\ obj_type = "Commit" => commit.ok
                  /\ obj_type = "Tree" => trees.ok
    IN  IF ~good THEN [kind |-> "panic", object |-> NoPackObject, pack |-> pack]
        ELSE [kind   |-> "some",
              object |-> PackGitObject(CASE obj_type = "Commit" -> Commit(commit.val)
                                         [] obj_type = "Tree" -> Tree(trees.val)
                                         [] obj_type = "Blob" -> Blob(z.data)),
              pack   |-> [pack EXCEPT !.pos = z.pos, !.num_objects = @ - 1]]

\* PackFile::next, lines 99-115, on the base name and the bytes z that
\* read_zlib gave
RefDeltaRead(pack, basename, z) ==
    LET delta == DeltaNew(z.data)
    IN  IF ~z.ok \/ ~delta.ok THEN [kind |-> "panic", object |-> NoPackObject, pack |-> pack]
        ELSE [kind   |-> "some",
              object |-> PackRefDelta(basename, delta.val),
              pack   |-> [pack EXCEPT !.pos = z.pos, !.num_objects = @ - 1]]

\* PackFile::next after the header h: an object, a ref-delta, or None for
\* the other types
PackFileRead(pack, h) ==
    IF h.kind # "some" THEN [kind |-> h.kind, object |-> NoPackObject, pack |-> pack]
    ELSE IF h.obj_type \in {"Commit", "Tree", "Blob"}
    THEN Undeltified(pack, h.obj_type, read_zlib(pack.buf, h.pos, h.len))
    ELSE IF h.obj_type = "RefDelta"
    THEN IF h.pos + SHA1_HASH_SIZE > Len(pack.buf)
         THEN [kind |-> "panic", object |-> NoPackObject, pack |-> pack]
         ELSE RefDeltaRead(pack, SubSeq(pack.buf, h.pos + 1, h.pos + SHA1_HASH_SIZE),
                           read_zlib(pack.buf, h.pos + SHA1_HASH_SIZE, h.len))
    ELSE [kind |-> "none", object |-> NoPackObject, pack |-> pack]

\* impl Iterator for PackFile: next
PackFileNext(pack) == PackFileRead(pack, read_object_header(pack))

\* Iterator::collect over a PackFile: the objects up to the first None
RECURSIVE PackFileCollect(_, _)
CollectAfter(r, acc) ==
    IF r.kind = "panic" THEN [ok |-> FALSE, objects |-> acc]
    ELSE IF r.kind = "none" THEN [ok |-> TRUE, objects |-> acc]
    ELSE PackFileCollect(r.pack, Append(acc, r.object))

PackFileCollect(pack, acc) == CollectAfter(PackFileNext(pack), acc)

\* PackFile::get_objects after PackFile::new gave pack
GetObjectsFrom(pack) ==
    IF ~pack.ok THEN [res |-> "panic", git_objects |-> <<>>]
    ELSE LET collected == PackFileCollect(pack, <<>>)
         IN  IF ~collected.ok THEN [res |-> "panic", git_objects |-> <<>>]
             ELSE expand_deltas(collected.objects)

\* PackFile::get_objects
PackFileGetObjects(bytes) == GetObjectsFrom(PackFileNew(bytes))

-----------------------------------------------------------------------------
(* What a server puts into a pack (the writer the reader above is made for) *)

\* the type number of a pack record
TypeNumber(object) ==
    IF object.kind = "refdelta" THEN 7
    ELSE CASE object.obj.kind = "commit" -> 1
           [] object.obj.kind = "tree" -> 2
           [] object.obj.kind = "blob" -> 3

\* n in groups of 7 bits, the low group first, all but the last with bit 7 set
RECURSIVE VarInt(_)
VarInt(n) == IF n < 128 THEN <<n>> ELSE <<128 + (n % 128)>> \o VarInt(n \div 128)

\* the header of a record: type and the low 4 bits of the length, then the rest
RecordHeader(type, len) ==
    IF len < 16 THEN <<type * 16 + len>>
    ELSE <<128 + type * 16 + (len % 16)>> \o VarInt(len \div 16)

\* one instruction of a delta, offsets and sizes below 256
EncodeInstruction(inst) ==
    IF inst.op = "insert" THEN <<Len(inst.bytes)>> \o inst.bytes
    ELSE <<128 + (IF inst.offset # 0 THEN 1 ELSE 0) + (IF inst.size # 0 THEN 16 ELSE 0)>>
         \o (IF inst.offset # 0 THEN <<inst.offset>> ELSE <<>>)
         \o (IF inst.size # 0 THEN <<inst.size>> ELSE <<>>)

EncodeDelta(delta) ==
    VarInt(delta.base_size) \o VarInt(delta.target_size)
    \o Flatten([i \in 1..Len(delta.instructions) |-> EncodeInstruction(delta.instructions[i])])

PackRecord(object) ==
    IF object.kind = "refdelta"
    THEN LET data == EncodeDelta(object.delta)
         IN  RecordHeader(7, Len(data)) \o object.basename \o ZlibEncode(data)
    ELSE LET data == Serialize(object.obj)
         IN  RecordHeader(TypeNumber(object), Len(data)) \o ZlibEncode(data)

\* "PACK", version 2, the count of records, the records, the checksum
PackOf(objects) ==
    LET body == <<80, 65, 67, 75>> \o <<0, 0, 0, 2>>
                \o <<0, 0, Len(objects) \div 256, Len(objects) % 256>>
                \o Flatten([i \in 1..Len(objects) |-> PackRecord(objects[i])])
    IN  body \o Sha1(body)

-----------------------------------------------------------------------------
(* The file system below root_dir.  A path is the sequence of its
   components below root_dir, the empty path is root_dir itself; a component
   is a string. *)

\* lib.rs: ".git", ".git/objects", ".git/refs"
GIT_DIR == << <<46, 103, 105, 116>> >>

GIT_OBJ_DIR == << <<46, 103, 105, 116>>, <<111, 98, 106, 101, 99, 116, 115>> >>

GIT_REF_DIR == << <<46, 103, 105, 116>>, <<114, 101, 102, 115>> >>

RootDir == <<>>

Parent(path) == SubSeq(path, 1, Len(path) - 1)

\* Path::exists
Exists(fs, path) == path \in fs.dirs \/ \E f \in fs.files : f.path = path

\* fs::create_dir: an Err when the path exists or its parent is no directory
\* (the parent of root_dir, the current directory, is one)
create_dir(fs, path) ==
    IF Exists(fs, path) \/ (path # RootDir /\ Parent(path) \notin fs.dirs)
    THEN [ok |-> FALSE, fs |-> fs]
    ELSE [ok |-> TRUE, fs |-> [fs EXCEPT !.dirs = @ \cup {path}]]

\* File::create that adds to a file that exists in place of cutting it
FileCreateAppends(fs, path, content) ==
    IF path = RootDir \/ path \in fs.dirs \/ Parent(path) \notin fs.dirs
    THEN [ok |-> FALSE, fs |-> fs]
    ELSE [ok |-> TRUE,
          fs |-> [fs EXCEPT !.files =
                     { f \in @ : f.path # path }
                     \cup { [path    |-> path,
                             content |-> Flatten([i \in 1..Cardinality({ f \in @ : f.path = path })
                                                     |-> (CHOOSE f \in @ : f.path = path).content])
                                         \o content] }]]

\* File::create and write_all, fs::write: the file is made or cut to nothing,
\* then filled; an Err when the path is a directory or its parent is none
FileCreate(fs, path, content) ==
    IF path = RootDir \/ path \in fs.dirs \/ Parent(path) \notin fs.dirs
    THEN [ok |-> FALSE, fs |-> fs]
    ELSE [ok |-> TRUE,
          fs |-> [fs EXCEPT !.files = { f \in @ : f.path # path }
                                      \cup { [path |-> path, content |-> content] }]]

\* the next fallible step f of a function whose earlier steps gave r
\* (the `?` operator)
Then(r, next) == IF r.ok THEN next ELSE r

-----------------------------------------------------------------------------
(* cmd/init.rs *)

\* init::run(root)
InitRefs(r) == Then(r, create_dir(r.fs, GIT_REF_DIR))

InitObjects(r) == Then(r, create_dir(r.fs, GIT_OBJ_DIR))

InitHead(r) ==
    Then(r, FileCreate(r.fs, GIT_DIR \o << <<72, 69, 65, 68>> >>, <<114, 101, 102, 58, 32, 114, 101, 102, 115, 47, 104, 101, 97, 100, 115, 47, 109, 97, 105, 110, 10>>))

InitRun(fs) == InitHead(InitRefs(InitObjects(create_dir(fs, GIT_DIR))))

-----------------------------------------------------------------------------
(* git_object/mod.rs: the object store *)

\* GitObject::path with the hash cut after its third character
ObjectPathCutAtThree(hex) == GIT_OBJ_DIR \o <<SubSeq(hex, 1, 3), SubSeq(hex, 4, Len(hex))>>

\* GitObject::path for a hash of 40 hex digits
ObjectPath(hex) == GIT_OBJ_DIR \o <<SubSeq(hex, 1, 2), SubSeq(hex, 3, Len(hex))>>

WriteInto(r, path, content) == Then(r, FileCreate(r.fs, path, content))

\* GitObject::write, lines 90-101, for the path and the bytes of the object
WriteAt(fs, path, content) ==
    IF Exists(fs, Parent(path)) THEN FileCreate(fs, path, content)
    ELSE WriteInto(create_dir(fs, Parent(path)), path, content)

\* GitObject::write
GitObjectWrite(fs, obj) ==
    WriteAt(fs, ObjectPath(HashHex(Hash(obj))), ZlibEncode(Header(obj) \o Serialize(obj)))

-----------------------------------------------------------------------------
(* tree.rs: FileTree *)

\* is_parent_of(object), applied to o; hash is object.hash()
is_parent_of(hash, o) ==
    o.kind = "tree" /\ \E i \in 1..Len(o.trees) : o.trees[i].hash = hash

\* FileTree::parent_of: the place in objects of the first parent, 0 for None
ParentAt(objects, hash) ==
    LET found == { k \in 1..Len(objects) : is_parent_of(hash, objects[k]) }
    IN  IF found = {} THEN 0 ELSE Least(found)

\* the name of the first entry of tree `parent` with this hash
EntryName(parent, hash) ==
    parent.trees[Least({ i \in 1..Len(parent.trees) : parent.trees[i].hash = hash })].name

\* FileTree::file_name_of for the object with this hash whose parent is at k
FileNameAt(objects, hash, k) ==
    IF k = 0 THEN [some |-> FALSE, name |-> <<>>]
    ELSE [some |-> TRUE, name |-> EntryName(objects[k], hash)]

\* FileTree::file_name_of
file_name_of(objects, object) ==
    FileNameAt(objects, Hash(object), ParentAt(objects, Hash(object)))

\* Ancestors: the parent, its parent and so on, the nearest first
RECURSIVE AncestorsFrom(_, _)
AncestorsFrom(objects, k) ==
    IF k = 0 THEN <<>>
    ELSE <<objects[k]>> \o AncestorsFrom(objects, ParentAt(objects, Hash(objects[k])))

ancestors_of(objects, object) == AncestorsFrom(objects, ParentAt(objects, Hash(object)))

\* PathBuf::push of a plain name
PathPush(path, name) == IF name.some THEN Append(path, name.name) ELSE path

\* FileTree::path_of, lines 51-58: the names of the ancestors, the farthest first
RECURSIVE PushAncestors(_, _, _)
PushAncestors(objects, ancestors, i) ==
    IF i = 0 THEN RootDir
    ELSE PathPush(PushAncestors(objects, ancestors, i - 1),
                  file_name_of(objects, ancestors[Len(ancestors) + 1 - i]))

\* FileTree::path_of
path_of(objects, object) ==
    PathPush(PushAncestors(objects, ancestors_of(objects, object),
                           Len(ancestors_of(objects, object))),
             file_name_of(objects, object))

\* FileTree::write, lines 70-81
WriteObjectAt(fs, path, object) ==
    IF Exists(fs, path) THEN [ok |-> TRUE, fs |-> fs]
    ELSE IF object.kind = "blob" THEN FileCreate(fs, path, object.blob)
    ELSE IF object.kind = "tree" THEN create_dir(fs, path)
    ELSE [ok |-> TRUE, fs |-> fs]

\* FileTree::write: first the parent, if there is one, then the object
RECURSIVE FileTreeWrite(_, _, _)
WriteAfterParent(r, objects, object) ==
    Then(r, WriteObjectAt(r.fs, path_of(objects, object), object))

WriteParentAt(fs, objects, k) ==
    IF k = 0 THEN [ok |-> TRUE, fs |-> fs] ELSE FileTreeWrite(fs, objects, objects[k])

\* FileTree::write that writes the object first and its parent after it
FileTreeWriteSelfFirst(fs, objects, object) ==
    LET self == WriteObjectAt(fs, path_of(objects, object), object)
    IN  Then(self, WriteParentAt(self.fs, objects, ParentAt(objects, Hash(object))))

FileTreeWrite(fs, objects, object) ==
    WriteAfterParent(WriteParentAt(fs, objects, ParentAt(objects, Hash(object))),
                     objects, object)

-----------------------------------------------------------------------------
(* cmd/clone.rs: run *)

\* str::contains
Contains(str, sub) ==
    \E i \in 0..(Len(str) - Len(sub)) : SubSeq(str, i + 1, i + Len(sub)) = sub

\* whether byte index k of a string is a char boundary
IsCharBoundary(bytes, k) ==
    k = Len(bytes) \/ (k < Len(bytes) /\ ~(bytes[k + 1] >= 128 /\ bytes[k + 1] < 192))

\* line[4..44].to_string(): a panic when the line is shorter or an end of
\* the slice is inside a character
MasterRefOf(bytes) ==
    IF Len(bytes) < 44 \/ ~IsCharBoundary(bytes, 4) \/ ~IsCharBoundary(bytes, 44)
    THEN [res |-> "panic", val |-> <<>>]
    ELSE [res |-> "some", val |-> Utf8Lossy(SubSeq(bytes, 5, 44))]

\* get_master_ref: the first line that holds "refs/heads/master"
RECURSIVE get_master_ref(_, _)
MasterRefAfter(r, checked) ==
    IF r.kind = "panic" THEN [res |-> "panic", val |-> <<>>]
    ELSE IF r.kind = "none" THEN [res |-> "none", val |-> <<>>]
    ELSE IF Contains(PktLineToString(r.line), <<114, 101, 102, 115, 47, 104, 101, 97, 100, 115, 47, 109, 97, 115, 116, 101, 114>>)
    THEN MasterRefOf(StrBytes(PktLineToString(r.line)))
    ELSE get_master_ref(r.lines, checked)

get_master_ref(l, checked) == MasterRefAfter(PktLinesNext(l, checked), checked)

\* the body of the POST, lines 38-46
PostBody(ref) ==
    PktLineToString(PktLineNew(StrBytes(<<119, 97, 110, 116, 32>> \o ref
                                        \o <<32, 109, 117, 108, 116, 105, 95, 97, 99, 107, 95, 100, 101, 116, 97, 105, 108, 101, 100, 32, 115, 105, 100, 101, 45, 98, 97, 110, 100, 45, 54, 52, 107, 10>>)))
    \o PktLineToString(PktLineNew(StrBytes(<<119, 97, 110, 116, 32>> \o ref \o <<10>>)))
    \o PktLineToString(PktLineFlush)
    \o PktLineToString(PktLineNew(<<100, 111, 110, 101, 10>>))

\* the loop body of run with an unknown band taken for progress text
HandleLineAnyBand(line, packed) ==
    IF PktLineToString(line) = <<48, 48, 48, 56, 78, 65, 75, 10>>
    THEN [next |-> "continue", packed_bytes |-> packed]
    ELSE IF ~PktLineSplitFirst(line).some
    THEN [next |-> "break", packed_bytes |-> packed]
    ELSE IF PktLineSplitFirst(line).first = 1
    THEN [next |-> "continue", packed_bytes |-> packed \o PktLineSplitFirst(line).rest]
    ELSE [next |-> "continue", packed_bytes |-> packed]

\* the loop body of run with progress text put into the pack buffer as well
HandleLineKeepsProgress(line, packed) ==
    IF PktLineToString(line) = <<48, 48, 48, 56, 78, 65, 75, 10>>
    THEN [next |-> "continue", packed_bytes |-> packed]
    ELSE IF ~PktLineSplitFirst(line).some
    THEN [next |-> "break", packed_bytes |-> packed]
    ELSE IF PktLineSplitFirst(line).first \in {1, 2}
    THEN [next |-> "continue", packed_bytes |-> packed \o PktLineSplitFirst(line).rest]
    ELSE [next |-> "error", packed_bytes |-> packed]

\* run, lines 55-77: what the loop does with a line, and the pack buffer after it
HandleLine(line, packed) ==
    IF PktLineToString(line) = <<48, 48, 48, 56, 78, 65, 75, 10>>
    THEN [next |-> "continue", packed_bytes |-> packed]
    ELSE IF ~PktLineSplitFirst(line).some
    THEN [next |-> "break", packed_bytes |-> packed]
    ELSE IF PktLineSplitFirst(line).first = 1
    THEN [next |-> "continue", packed_bytes |-> packed \o PktLineSplitFirst(line).rest]
    ELSE IF PktLineSplitFirst(line).first = 2
    THEN [next |-> "continue", packed_bytes |-> packed]
    ELSE [next |-> "error", packed_bytes |-> packed]

\* the working tree goes ahead after the first object is stored
AfterWriteEarly(stored, total) == "tree"

\* run, lines 82-87: the loop over objects goes on, or FileTree comes next
AfterWrite(stored, total) == IF stored < total THEN "write" ELSE "tree"

-----------------------------------------------------------------------------
(* States of the parts that a specification leaves alone *)

NoFs == [dirs |-> {}, files |-> {}]

\* no clone is running
CloneIdle ==
    /\ disk = NoFs
    /\ refsBody = <<>>
    /\ requests = <<>>
    /\ master_ref = <<>>
    /\ packed_bytes = <<>>
    /\ cloneObjects = <<>>
    /\ written = 0
    /\ materialized = 0
    /\ error = "none"

\* no object has been opened
StoreIdle == opened = [call |-> FALSE, of |-> NoObject, got |-> [res |-> "none", obj |-> NoObject]]

\* no pkt-line has been formatted
EncodeIdle == sent = [lines |-> <<>>, bytes |-> <<>>]

\* no delta is being decoded or applied
ApplyIdle ==
    /\ deltaBytes = <<>>
    /\ deltaBase = <<>>
    /\ deltaOut = [call |-> FALSE, ok |-> FALSE, bytes |-> <<>>]

\* no PackFile is being read
PackIdle ==
    /\ packFile = [ok |-> FALSE, num_objects |-> 0, buf |-> <<>>, pos |-> 0]
    /\ packRecords = <<>>

-----------------------------------------------------------------------------
(* Inputs of the pkt-line decoder: response bodies *)

MaxLines == 2

MaxChunk == 4

\* what a server puts on the wire for one line: 4 hex digits of the size, then the payload
WireFrame(line) == Hex04(PktLineSize(line)) \o PktLineSerialize(line)

\* payloads: empty, text, side-band data (band 1), "NAK\n"
WirePayloads == { <<>>, <<97>>, <<1, 80, 75>>, <<78, 65, 75, 10>> }

WireLines == {PktLineFlush} \cup {PktLineNew(p) : p \in WirePayloads}

RECURSIVE LineSeqs(_)
LineSeqs(n) ==
    IF n = 0 THEN { <<>> }
    ELSE LET shorter == LineSeqs(n - 1)
         IN  shorter \cup { Append(ls, l) : ls \in {x \in shorter : Len(x) = n - 1}, l \in WireLines }

WireOf(ls) == Flatten([i \in 1..Len(ls) |-> WireFrame(ls[i])])

\* the valid pkt-line streams of up to MaxLines lines
ValidWires == { WireOf(ls) : ls \in LineSeqs(MaxLines) }

\* streams cut short anywhere (the body ended inside a frame)
TruncatedWires == UNION { { Take(w, n) : n \in 0..Len(w) } : w \in ValidWires }

\* frames whose length prefix is not four hex digits of a size >= 4:
\* "zzzz", "0003", "0001x", "+005a" (a sign from_str_radix accepts), "000Ax" (upper case)
MalformedWires ==
    { <<122, 122, 122, 122>>, <<48, 48, 48, 51>>, <<48, 48, 48, 49, 120>>,
      <<43, 48, 48, 53, 97>>, <<48, 48, 48, 65, 120>> }

Wires == ValidWires \cup TruncatedWires \cup MalformedWires

-----------------------------------------------------------------------------
(* cmd/clone.rs: PktLineStream, one step per poll of the body stream *)

Checked == build = "debug"

NoCall == [kind |-> "new", before |-> PktLinesNew(<<>>), after |-> PktLinesNew(<<>>)]

\* no GitObject::restore is in progress
RestoreIdle ==
    /\ restoreSelf = NoObject
    /\ restoreDelta = NoDelta
    /\ restoreResult = [res |-> "none", obj |-> NoObject]

\* no expand_deltas is in progress
DeltasIdle ==
    /\ packObjects = <<>>
    /\ git_objects = <<>>
    /\ deltas = NoPairs
    /\ deltasLeft = <<>>

InitPkt ==
    /\ pc = "try"
    /\ build \in {"debug", "release"}
    /\ wire \in Wires
    /\ rest = wire
    /\ lines = PktLinesNew(<<>>)
    /\ emitted = <<>>
    /\ last = NoCall
    /\ RestoreIdle
    /\ DeltasIdle
    /\ CloneIdle
    /\ PackIdle
    /\ StoreIdle
    /\ EncodeIdle
    /\ ApplyIdle

\* the effect of one PktLines::next made by PktLineStream::next on decoder l;
\* a line sends the caller back for another next(), none goes on polling
StreamStep(l) ==
    LET r == PktLinesNext(l, Checked)
    IN  /\ last' = [kind |-> r.kind, before |-> l, after |-> r.lines]
        /\ lines' = r.lines
        /\ emitted' = IF r.kind \in {"line", "flush"} THEN Append(emitted, r.line) ELSE emitted
        /\ pc' = CASE r.kind \in {"line", "flush"} -> "try"
                   [] r.kind = "none" -> "pull"
                   [] OTHER -> "panic"

\* PktLineStream::next, line 128: a line already buffered
StreamTry ==
    /\ pc = "try"
    /\ StreamStep(lines)
    /\ UNCHANGED <<applyVars, storeVars, encodeVars, packVars, build, wire, rest, restoreVars, deltaVars, cloneVars>>

\* PktLineStream::next, lines 132-141: the stream yields a chunk of any size
StreamPull ==
    /\ pc = "pull"
    /\ rest # <<>>
    /\ \E n \in 1..Min(MaxChunk, Len(rest)) :
          /\ rest' = Drop(rest, n)
          /\ StreamStep(PktLinesAppend(lines, Take(rest, n)))
    /\ UNCHANGED <<applyVars, storeVars, encodeVars, packVars, build, wire, restoreVars, deltaVars, cloneVars>>

\* PktLineStream::next, line 143: the stream is over, Ok(None)
StreamEnd ==
    /\ pc = "pull"
    /\ rest = <<>>
    /\ pc' = "end"
    /\ UNCHANGED <<applyVars, storeVars, encodeVars, packVars, build, pktVars, restoreVars, deltaVars, cloneVars>>

NextPkt == StreamTry \/ StreamPull \/ StreamEnd

SpecPkt == InitPkt /\ [][NextPkt]_vars

\* bytes of the body taken up by the frames of the lines in ls (a flush frame is "0000")
RECURSIVE FrameBytes(_)
FrameBytes(ls) ==
    IF ls = <<>> THEN 0
    ELSE (IF Head(ls).some THEN PktLineSize(Head(ls)) ELSE 4) + FrameBytes(Tail(ls))

\* C1: for a valid pkt-line stream cut into chunks in any way and fed through
\* append as PktLineStream::next does, the run does not panic and the lines
\* it has returned when the stream is over are the lines one PktLines decoder
\* returns for the whole stream.
C1_ChunkedEqualsWhole ==
    /\ (wire \in ValidWires => pc # "panic")
    /\ (pc = "end" => emitted = PktLinesCollect(PktLinesNew(wire), Checked))

\* a valid stream of MaxLines lines has been decoded to its end, and one of
\* its frames is longer than any chunk, so it arrived in pieces
C1_Witness ==
    /\ pc = "end"
    /\ wire \in ValidWires
    /\ Len(emitted) = MaxLines
    /\ \E i \in 1..Len(emitted) : PktLineSize(emitted[i]) > MaxChunk

\* C10: when PktLines::next returns None (fewer than 4 unread bytes, or a
\* declared length longer than the unread bytes) the decoder is as it was
\* before the call, and no byte of the incomplete frame is lost: the unread
\* bytes followed by the undelivered ones are the body from the end of the
\* last returned frame on.
C10_NoneRewinds ==
    /\ (last.kind = "none" => last.after = last.before)
    /\ (pc # "panic" =>
           PktLinesRemaining(lines) \o rest = Drop(wire, FrameBytes(emitted)))

\* next returned None after reading a length prefix whose frame is incomplete,
\* and the stream still has bytes to deliver
C10_Witness ==
    /\ pc = "pull"
    /\ last.kind = "none"
    /\ Len(PktLinesRemaining(last.before)) >= 4
    /\ line_size(Take(PktLinesRemaining(last.before), 4)) >= 4
    /\ rest # <<>>


\* the four bytes at the cursor of decoder l hold a byte that is no hex digit
NotHexPrefix(l) ==
    /\ Len(PktLinesRemaining(l)) >= 4
    /\ \E i \in 1..4 : HexVal(PktLinesRemaining(l)[i]) < 0

\* C11: when the four length bytes of a frame are not hexadecimal digits,
\* PktLines::next gives its caller an error value (MalformedLength / Parse);
\* the run does not end in a panic.
C11_MalformedIsError ==
    (last.kind # "new" /\ NotHexPrefix(last.before)) =>
        (last.kind = "error" /\ pc # "panic")

-----------------------------------------------------------------------------
(* GitObject::restore applied to base objects and deltas *)

MaxInsts == 2

\* no PktLineStream is in use
PktIdle ==
    /\ wire = <<>>
    /\ rest = <<>>
    /\ lines = PktLinesNew(<<>>)
    /\ emitted = <<>>
    /\ last = NoCall

RECURSIVE SeqsUpTo(_, _)
\* the sequences of at most n elements of S
SeqsUpTo(S, n) ==
    IF n = 0 THEN { <<>> }
    ELSE LET shorter == SeqsUpTo(S, n - 1)
         IN  shorter \cup { Append(q, x) : q \in {y \in shorter : Len(y) = n - 1}, x \in S }

\* a digest of a child object, for the entries of the trees below
ChildHash(byte) == Sha1(Header(Blob(<<byte>>)) \o <<byte>>)

EntryA == TreeNode("File", <<97>>, ChildHash(65))

EntryD == TreeNode("Directory", <<100>>, ChildHash(66))

Someone == User(<<75>>, <<107, 64, 103>>, 15, <<43, 48, 48, 48, 48>>)

CommitUp == CommitOf(HashHex(ChildHash(67)), <<>>, Someone, Someone, <<85, 112>>)

\* the base objects: blobs of 0 to 3 bytes, trees of one and two entries, a commit
RestoreBases ==
    { Blob(<<>>), Blob(<<65>>), Blob(<<65, 66>>), Blob(<<65, 66, 67>>),
      Tree(<<EntryA>>), Tree(<<EntryA, EntryD>>), Commit(CommitUp) }

\* instructions whose output keeps the payload an object of the base's kind:
\* for a blob, copies of its bytes and inserted bytes; for a tree, copies of
\* whole entries; for a commit, the copy of everything up to the message and
\* inserted message lines
RestoreInsts(obj) ==
    LET payload == Serialize(obj)
    IN  CASE obj.kind = "blob" ->
               { Insert(<<88>>), Insert(<<88, 89>>) }
               \cup (IF payload = <<>> THEN {} ELSE { Copy(0, Len(payload)), Copy(0, 1) })
          [] obj.kind = "tree" ->
               { Copy(0, Len(payload)), Copy(0, TreeNodeLen(obj.trees[1])) }
          [] obj.kind = "commit" ->
               { Copy(0, Len(payload)), Copy(0, Len(payload) - 3),
                 Insert(<<85, 112, 10>>), Insert(<<79, 10>>) }

\* the delta with instructions insts for base object obj, as DeltaNew gives it
DeltaFor(obj, insts) ==
    LET target == RestoreLoop(insts, Serialize(obj), <<>>)
    IN  [base_size    |-> Size(obj),
         target_size  |-> Len(target.bytes),
         instructions |-> insts]

InitRestore ==
    /\ pc = "restore"
    /\ build = "release"
    /\ PktIdle
    /\ restoreSelf \in RestoreBases
    /\ restoreDelta \in { DeltaFor(restoreSelf, insts) : insts \in SeqsUpTo(RestoreInsts(restoreSelf), MaxInsts) }
    /\ restoreResult = [res |-> "none", obj |-> NoObject]
    /\ DeltasIdle
    /\ CloneIdle
    /\ PackIdle
    /\ StoreIdle
    /\ EncodeIdle
    /\ ApplyIdle

\* obj.restore(delta), as expand_deltas calls it
Restore ==
    /\ pc = "restore"
    /\ restoreResult' = GitObjectRestore(restoreSelf, restoreDelta)
    /\ pc' = "restored"
    /\ UNCHANGED <<applyVars, storeVars, encodeVars, packVars, build, pktVars, restoreSelf, restoreDelta, deltaVars, cloneVars>>

NextRestore == Restore

SpecRestore == InitRestore /\ [][NextRestore]_vars

\* bytes is the canonical payload of some object of this kind
IsPayloadOf(kind, bytes) ==
    CASE kind = "blob" -> TRUE
      [] kind = "tree" ->
           LET trees == TreeRecordsCollect(bytes, 0, <<>>)
           IN  trees.ok /\ Serialize(Tree(trees.val)) = bytes
      [] kind = "commit" ->
           /\ Len(SplitOn(bytes, 10)) >= 6
           /\ LET commit == CommitFromBytes(bytes)
              IN  commit.ok /\ CommitSerialize(commit.val) = bytes

\* what GitObject::restore is to return on (self, delta): an object of the
\* kind of self whose payload is delta.restore(self.serialize())
RestoreIsRight ==
    LET target == DeltaRestore(restoreDelta, Serialize(restoreSelf))
    IN  /\ restoreResult.res = "ok"
        /\ restoreResult.obj.kind = restoreSelf.kind
        /\ Serialize(restoreResult.obj) = target.bytes

\* C7: restore(D) on O returns an object of O's kind whose canonical payload
\* is exactly D.restore(O.serialize()), whatever the target length (equal to,
\* shorter than or longer than the base payload).
C7_RestoreGivesTarget ==
    (/\ pc = "restored"
     /\ DeltaRestore(restoreDelta, Serialize(restoreSelf)).ok
     /\ IsPayloadOf(restoreSelf.kind, DeltaRestore(restoreDelta, Serialize(restoreSelf)).bytes))
        => RestoreIsRight

\* what the code does keep: the claim for trees and commits, and for blobs
\* when the target is as long as the base
C7_HoldsWhenHeaderFits ==
    (/\ pc = "restored"
     /\ DeltaRestore(restoreDelta, Serialize(restoreSelf)).ok
     /\ IsPayloadOf(restoreSelf.kind, DeltaRestore(restoreDelta, Serialize(restoreSelf)).bytes)
     /\ (restoreSelf.kind = "blob" => restoreDelta.target_size = Size(restoreSelf)))
        => RestoreIsRight

-----------------------------------------------------------------------------
(* expand_deltas, one step per round of its loop *)

MaxPack == 4

RECURSIVE DistinctSeqs(_, _)
\* the sequences of at most n elements of S, no element twice
DistinctSeqs(S, n) ==
    IF n = 0 THEN { <<>> }
    ELSE LET shorter == DistinctSeqs(S, n - 1)
             longest == { q \in shorter : Len(q) = n - 1 }
         IN  shorter \cup UNION { { Append(q, x) : x \in S \ { q[i] : i \in 1..Len(q) } }
                                  : q \in longest }

BlobAB == Blob(<<65, 66>>)

BlobXB == Blob(<<88, 66>>)

BlobXY == Blob(<<88, 89>>)

BlobLost == Blob(<<63>>)

\* the ref-delta on base object obj with instructions insts
RefDeltaOn(obj, insts) == PackRefDelta(Hash(obj), DeltaFor(obj, insts))

\* AB -> XB -> XY -> ZY: a chain of deltas, each on the result of the one before
DeltaToXB == RefDeltaOn(BlobAB, <<Insert(<<88>>), Copy(1, 1)>>)

DeltaToXY == RefDeltaOn(BlobXB, <<Copy(0, 1), Insert(<<89>>)>>)

DeltaToZY == RefDeltaOn(BlobXY, <<Insert(<<90>>), Copy(1, 1)>>)

\* a delta whose base is in no pack
DeltaOnLost == RefDeltaOn(BlobLost, <<Copy(0, 1)>>)

\* deltas on AB whose target is longer and shorter than AB
DeltaLonger == RefDeltaOn(BlobAB, <<Copy(0, 2), Insert(<<88>>)>>)

DeltaShorter == RefDeltaOn(BlobAB, <<Copy(0, 1)>>)

PackItems ==
    { PackGitObject(BlobAB), DeltaToXB, DeltaToXY, DeltaToZY,
      DeltaOnLost, DeltaLonger, DeltaShorter }

\* the packs: up to MaxPack of the items, in any order
DeltaPacks == DistinctSeqs(PackItems, MaxPack)

InitDeltas ==
    /\ pc = "group"
    /\ build = "release"
    /\ PktIdle
    /\ RestoreIdle
    /\ packObjects \in DeltaPacks
    /\ git_objects = <<>>
    /\ deltas = NoPairs
    /\ deltasLeft = <<>>
    /\ CloneIdle
    /\ PackIdle
    /\ StoreIdle
    /\ EncodeIdle
    /\ ApplyIdle

\* expand_deltas, lines 216-221, and the first test of the while condition
ExpandGroup ==
    /\ pc = "group"
    /\ LET grouped == group_objects(packObjects)
       IN  /\ git_objects' = grouped.git_objects
           /\ deltas' = InitialDeltas(grouped.delta_pairs)
           /\ pc' = IF grouped.delta_pairs # <<>> THEN "expand" ELSE "returned"
    /\ UNCHANGED <<applyVars, storeVars, encodeVars, packVars, build, pktVars, restoreVars, packObjects, deltasLeft, cloneVars>>

\* the variables after a round with outcome r
RoundDone(r) ==
    /\ deltasLeft' = Append(deltasLeft, Len(deltas.pairs))
    /\ git_objects' = r.git_objects
    /\ deltas' = r.deltas
    /\ pc' = IF r.res = "panic" THEN "panic"
             ELSE IF r.deltas.some THEN "expand" ELSE "returned"

\* expand_deltas, lines 223-250: one round.  No run makes more rounds than
\* it has deltas; the guard stops a loop that would go on for ever.
ExpandStep ==
    /\ pc = "expand"
    /\ Len(deltasLeft) <= MaxPack
    /\ RoundDone(ExpandRound(git_objects, deltas.pairs))
    /\ UNCHANGED <<applyVars, storeVars, encodeVars, packVars, build, pktVars, restoreVars, packObjects, cloneVars>>

NextDeltas == ExpandGroup \/ ExpandStep

SpecDeltas == InitDeltas /\ [][NextDeltas]_vars

\* the number of pending deltas
Pending(pending) == IF pending.some THEN Len(pending.pairs) ELSE 0

\* C2: when expand_deltas returns normally, every ref-delta of its input has
\* been applied: it returns the input objects and one rebuilt object for each
\* input delta, so as many objects as the pack had records.
C2_NoDeltaDropped ==
    pc = "returned" => Len(git_objects) = Len(packObjects)

\* C3: the delta resolution loop terminates: every round either resolves at
\* least one pending delta, so that strictly fewer are pending after it, or
\* ends the run with a fatal failure; no round leaves the pending set as it
\* was, and a run makes no more rounds than its input has deltas.
C3_RoundsShrink ==
    [][pc = "expand" =>
          /\ \/ pc' = "panic"
             \/ /\ Pending(deltas') < Pending(deltas)
                /\ Len(git_objects') > Len(git_objects)
          /\ Len(deltasLeft') <= Len(SelectSeq(packObjects, IsRefDelta))]_vars

\* a second round was run on a pending set the first round had shrunk
C3_Witness ==
    /\ pc \in {"returned", "expand"}
    /\ Len(deltasLeft) = 2
    /\ deltasLeft[2] < deltasLeft[1]

-----------------------------------------------------------------------------
(* clone: the servers it talks to *)

CloneChunk == 64

BlobHi == Blob(<<104, 105>>)

BlobYo == Blob(<<121, 111>>)

BlobHo == Blob(<<104, 111>>)

FileEntry(name, obj) == TreeNode("File", name, Hash(obj))

DirEntry(name, obj) == TreeNode("Directory", name, Hash(obj))

\* a/ and b/ are two files
FlatTree == Tree(<<FileEntry(<<97>>, BlobHi), FileEntry(<<98>>, BlobYo)>>)

\* a and b are the same blob
TwinTree == Tree(<<FileEntry(<<97>>, BlobHi), FileEntry(<<98>>, BlobHi)>>)

SubTree == Tree(<<FileEntry(<<102>>, BlobYo)>>)

\* a file and a directory d with a file f
DeepTree == Tree(<<FileEntry(<<97>>, BlobHi), DirEntry(<<100>>, SubTree)>>)

\* a tree whose one entry is a directory .git, with a directory objects, with a file f
ObjectsTree == Tree(<<DirEntry(<<111, 98, 106, 101, 99, 116, 115>>, SubTree)>>)

DotGitTree == Tree(<<DirEntry(<<46, 103, 105, 116>>, ObjectsTree)>>)

CommitOn(tree) == Commit(CommitOf(HashHex(Hash(tree)), <<>>, Someone, Someone, <<85, 112>>))

\* every object as it is
FlatPack ==
    <<PackGitObject(CommitOn(FlatTree)), PackGitObject(FlatTree),
      PackGitObject(BlobHi), PackGitObject(BlobYo)>>

\* yo as a delta on hi, after its base
DeltaPack ==
    <<PackGitObject(CommitOn(FlatTree)), PackGitObject(FlatTree),
      PackGitObject(BlobHi), RefDeltaOn(BlobHi, <<Insert(<<121, 111>>)>>)>>

\* yo as a delta on ho, which is a delta on hi that comes later in the pack
LatePack ==
    <<PackGitObject(CommitOn(FlatTree)), PackGitObject(FlatTree),
      PackGitObject(BlobHi),
      RefDeltaOn(BlobHo, <<Insert(<<121>>), Copy(1, 1)>>),
      RefDeltaOn(BlobHi, <<Copy(0, 1), Insert(<<111>>)>>)>>

TwinPack ==
    <<PackGitObject(CommitOn(TwinTree)), PackGitObject(TwinTree), PackGitObject(BlobHi)>>

\* the children before their parents
DeepPack ==
    <<PackGitObject(BlobYo), PackGitObject(BlobHi), PackGitObject(SubTree),
      PackGitObject(DeepTree), PackGitObject(CommitOn(DeepTree))>>

\* a history of two commits: the older one has the file b, master has the file a
OldTree == Tree(<<FileEntry(<<98>>, BlobYo)>>)

NewTree == Tree(<<FileEntry(<<97>>, BlobHi)>>)

NewCommit ==
    Commit(CommitOf(HashHex(Hash(NewTree)), <<HashHex(Hash(CommitOn(OldTree)))>>,
                    Someone, Someone, <<85, 112>>))

HistoryPack ==
    <<PackGitObject(NewCommit), PackGitObject(NewTree), PackGitObject(BlobHi),
      PackGitObject(CommitOn(OldTree)), PackGitObject(OldTree), PackGitObject(BlobYo)>>

DotGitPack ==
    <<PackGitObject(CommitOn(DotGitTree)), PackGitObject(DotGitTree),
      PackGitObject(ObjectsTree), PackGitObject(SubTree), PackGitObject(BlobYo)>>

\* the answer to GET info/refs of a server whose master is this commit
RefsOf(commit) ==
    WireOf(<<PktLineNew(<<35, 32, 115, 101, 114, 118, 105, 99, 101, 61, 103, 105, 116, 45, 117, 112, 108, 111, 97, 100, 45, 112, 97, 99, 107, 10>>),
             PktLineFlush,
             PktLineNew(StrBytes(HashHex(Hash(commit)))
                        \o <<32, 72, 69, 65, 68>> \o <<0>> \o <<115, 105, 100, 101, 45, 98, 97, 110, 100, 45, 54, 52, 107, 32, 115, 121, 109, 114, 101, 102, 61, 72, 69, 65, 68, 58, 114, 101, 102, 115, 47, 104, 101, 97, 100, 115, 47, 109, 97, 115, 116, 101, 114, 10>>),
             PktLineNew(StrBytes(HashHex(Hash(commit))) \o <<32, 114, 101, 102, 115, 47, 104, 101, 97, 100, 115, 47, 109, 97, 115, 116, 101, 114, 10>>),
             PktLineFlush>>)

\* the answer of a server that has no master branch
RefsWithoutMaster(commit) ==
    WireOf(<<PktLineNew(<<35, 32, 115, 101, 114, 118, 105, 99, 101, 61, 103, 105, 116, 45, 117, 112, 108, 111, 97, 100, 45, 112, 97, 99, 107, 10>>),
             PktLineFlush,
             PktLineNew(StrBytes(HashHex(Hash(commit))) \o <<32, 114, 101, 102, 115, 47, 104, 101, 97, 100, 115, 47, 109, 97, 105, 110, 10>>),
             PktLineFlush>>)

\* the answer of a server that sends a page in place of pkt-lines: <html>
RefsPage == <<60, 104, 116, 109, 108, 62>>

Nak == PktLineNew(<<78, 65, 75, 10>>)

Band(n, bytes) == PktLineNew(<<n>> \o bytes)

\* the answer to the POST: NAK, progress text, the pack in two lines of
\* channel 1 with progress text between them, the flush line
SideBand(pack) ==
    WireOf(<<Nak,
             Band(2, <<67, 111, 117, 110, 116, 105, 110, 103, 13>>),
             Band(1, Take(pack, Len(pack) \div 2)),
             Band(2, <<100, 111, 110, 101, 10>>),
             Band(1, Drop(pack, Len(pack) \div 2)),
             PktLineFlush>>)

\* a line of channel 3 after the pack, and before it
BandThreeLate(pack) == WireOf(<<Nak, Band(1, pack), Band(3, <<110, 111>>), PktLineFlush>>)

BandThreeEarly(pack) == WireOf(<<Nak, Band(3, <<110, 111>>), Band(1, pack), PktLineFlush>>)

\* the body ends without a flush line
NoFlush(pack) == WireOf(<<Nak, Band(1, pack)>>)

\* a line with no payload ("0004") in the middle of the pack
EmptyLine(pack) ==
    WireOf(<<Band(1, Take(pack, Len(pack) \div 2)),
             PktLineNew(<<>>),
             Band(1, Drop(pack, Len(pack) \div 2)),
             PktLineFlush>>)

Server(refs, upload) == [refs |-> refs, upload |-> upload]

Servers ==
    { Server(RefsOf(CommitOn(FlatTree)), SideBand(PackOf(FlatPack))),
      Server(RefsOf(CommitOn(FlatTree)), SideBand(PackOf(DeltaPack))),
      Server(RefsOf(CommitOn(FlatTree)), SideBand(PackOf(LatePack))),
      Server(RefsOf(CommitOn(TwinTree)), SideBand(PackOf(TwinPack))),
      Server(RefsOf(CommitOn(DeepTree)), SideBand(PackOf(DeepPack))),
      Server(RefsOf(CommitOn(DotGitTree)), SideBand(PackOf(DotGitPack))),
      Server(RefsOf(NewCommit), SideBand(PackOf(HistoryPack))),
      Server(RefsOf(CommitOn(FlatTree)), BandThreeLate(PackOf(FlatPack))),
      Server(RefsOf(CommitOn(FlatTree)), BandThreeEarly(PackOf(FlatPack))),
      Server(RefsOf(CommitOn(FlatTree)), NoFlush(PackOf(FlatPack))),
      Server(RefsOf(CommitOn(FlatTree)), EmptyLine(PackOf(FlatPack))),
      Server(RefsWithoutMaster(CommitOn(FlatTree)), SideBand(PackOf(FlatPack))),
      Server(RefsPage, SideBand(PackOf(FlatPack))) }

\* root_dir does not exist; exists and is empty; holds an initialized repository
InitialFs ==
    { NoFs,
      create_dir(NoFs, RootDir).fs,
      InitRun(create_dir(NoFs, RootDir).fs).fs }

-----------------------------------------------------------------------------
(* cmd/clone.rs: run, step by step *)

Init ==
    /\ pc = "start"
    /\ build \in {"debug", "release"}
    /\ \E server \in Servers :
          /\ refsBody = server.refs
          /\ wire = server.upload
    /\ rest = <<>>
    /\ lines = PktLinesNew(<<>>)
    /\ emitted = <<>>
    /\ last = NoCall
    /\ RestoreIdle
    /\ DeltasIdle
    /\ disk \in InitialFs
    /\ requests = <<>>
    /\ master_ref = <<>>
    /\ packed_bytes = <<>>
    /\ cloneObjects = <<>>
    /\ written = 0
    /\ materialized = 0
    /\ error = "none"
    /\ PackIdle
    /\ StoreIdle
    /\ EncodeIdle
    /\ ApplyIdle

\* a step of run that may return an Err gave r: the file system after it,
\* and where run goes on
FsStep(r, next) ==
    /\ disk' = r.fs
    /\ pc' = IF r.ok THEN next ELSE "failed"
    /\ error' = IF r.ok THEN error ELSE "Io"

\* run, lines 15-16
InitNew(r) == Then(r, InitRun(r.fs))

\* run, lines 13-17: root_dir is made and initialized unless it exists
CloneStart ==
    /\ pc = "start"
    /\ FsStep(IF Exists(disk, RootDir) THEN [ok |-> TRUE, fs |-> disk]
              ELSE InitNew(create_dir(disk, RootDir)),
              "discover")
    /\ UNCHANGED <<applyVars, storeVars, encodeVars, packVars, build, pktVars, restoreVars, deltaVars, refsBody, requests,
                   master_ref, packed_bytes, cloneObjects, written, materialized>>

\* run, lines 24-27, for what get_master_ref gave
Discovered(found) ==
    /\ master_ref' = IF found.res = "some" THEN found.val ELSE master_ref
    /\ pc' = CASE found.res = "some" -> "post"
               [] found.res = "none" -> "failed"
               [] OTHER -> "panic"
    /\ error' = IF found.res = "none" THEN "NoMasterRef" ELSE error

\* run, lines 19-27: GET info/refs, the whole body, the master ref in it
CloneDiscover ==
    /\ pc = "discover"
    /\ requests' = Append(requests, [method |-> "GET",
                                     path   |-> "/info/refs?service=git-upload-pack",
                                     body   |-> <<>>])
    /\ Discovered(get_master_ref(PktLinesNew(refsBody), Checked))
    /\ UNCHANGED <<applyVars, storeVars, encodeVars, packVars, build, pktVars, restoreVars, deltaVars, disk, refsBody,
                   packed_bytes, cloneObjects, written, materialized>>

\* run, lines 29-52: the POST is sent, the body of the answer starts to arrive
ClonePost ==
    /\ pc = "post"
    /\ requests' = Append(requests, [method |-> "POST",
                                     path   |-> "/git-upload-pack",
                                     body   |-> PostBody(master_ref)])
    /\ rest' = wire
    /\ lines' = PktLinesNew(<<>>)
    /\ packed_bytes' = <<>>
    /\ pc' = "try"
    /\ UNCHANGED <<applyVars, storeVars, encodeVars, packVars, build, wire, emitted, last, restoreVars, deltaVars, disk, refsBody,
                   master_ref, cloneObjects, written, materialized, error>>

\* a request or the body stream fails: reqwest's Err goes to the caller
CloneHttpError ==
    /\ pc \in {"discover", "post", "pull"}
    /\ requests' = CASE pc = "discover" ->
                          Append(requests, [method |-> "GET",
                                            path   |-> "/info/refs?service=git-upload-pack",
                                            body   |-> <<>>])
                     [] pc = "post" ->
                          Append(requests, [method |-> "POST",
                                            path   |-> "/git-upload-pack",
                                            body   |-> PostBody(master_ref)])
                     [] OTHER -> requests
    /\ pc' = "failed"
    /\ error' = "Http"
    /\ UNCHANGED <<applyVars, storeVars, encodeVars, packVars, build, pktVars, restoreVars, deltaVars, disk, refsBody, master_ref,
                   packed_bytes, cloneObjects, written, materialized>>

\* run, lines 59-77, for what HandleLine gave
LineHandled(handled) ==
    /\ packed_bytes' = handled.packed_bytes
    /\ pc' = CASE handled.next = "continue" -> "try"
               [] handled.next = "break" -> "decode"
               [] OTHER -> "failed"
    /\ error' = IF handled.next = "error" THEN "UnexpectedBand" ELSE error

\* run, line 54, for the outcome r of the PktLines::next that
\* pkt_stream.next() made: a line goes through the loop body, None sends
\* pkt_stream.next() to the body stream
StreamNextDone(r) ==
    /\ lines' = r.lines
    /\ emitted' = IF r.kind \in {"line", "flush"} THEN Append(emitted, r.line) ELSE emitted
    /\ IF r.kind \in {"line", "flush"}
       THEN LineHandled(HandleLine(r.line, packed_bytes))
       ELSE /\ packed_bytes' = packed_bytes
            /\ pc' = IF r.kind = "none" THEN "pull" ELSE "panic"
            /\ error' = error

\* PktLineStream::next, line 128, and the loop body of run
CloneTry ==
    /\ pc = "try"
    /\ StreamNextDone(PktLinesNext(lines, Checked))
    /\ UNCHANGED <<applyVars, storeVars, encodeVars, packVars, build, wire, rest, last, restoreVars, deltaVars, disk, refsBody,
                   requests, master_ref, cloneObjects, written, materialized>>

\* PktLineStream::next, lines 132-141, and the loop body of run: the body
\* stream gives CloneChunk bytes, or all there is left
ClonePull ==
    /\ pc = "pull"
    /\ rest # <<>>
    /\ \E n \in {Min(CloneChunk, Len(rest)), Len(rest)} :
          /\ rest' = Drop(rest, n)
          /\ StreamNextDone(PktLinesNext(PktLinesAppend(lines, Take(rest, n)), Checked))
    /\ UNCHANGED <<applyVars, storeVars, encodeVars, packVars, build, wire, last, restoreVars, deltaVars, disk, refsBody,
                   requests, master_ref, cloneObjects, written, materialized>>

\* PktLineStream::next, line 143: the body is over, the loop of run ends
CloneStreamEnd ==
    /\ pc = "pull"
    /\ rest = <<>>
    /\ pc' = "decode"
    /\ UNCHANGED <<applyVars, storeVars, encodeVars, packVars, build, pktVars, restoreVars, deltaVars, disk, refsBody, requests,
                   master_ref, packed_bytes, cloneObjects, written, materialized, error>>

\* run, lines 80-82, for what PackFile::get_objects gave
Decoded(got) ==
    /\ cloneObjects' = got.git_objects
    /\ pc' = IF got.res = "panic" THEN "panic"
             ELSE IF got.git_objects = <<>> THEN "done" ELSE "write"

\* run, line 80: PackFile::get_objects(packed_bytes)
CloneDecode ==
    /\ pc = "decode"
    /\ Decoded(PackFileGetObjects(packed_bytes))
    /\ UNCHANGED <<applyVars, storeVars, encodeVars, packVars, build, pktVars, restoreVars, deltaVars, disk, refsBody, requests,
                   master_ref, packed_bytes, written, materialized, error>>

\* run, lines 82-84: object.write(&root_dir)? for the next object
CloneWrite ==
    /\ pc = "write"
    /\ FsStep(GitObjectWrite(disk, cloneObjects[written + 1]),
              AfterWrite(written + 1, Len(cloneObjects)))
    /\ written' = written + 1
    /\ UNCHANGED <<applyVars, storeVars, encodeVars, packVars, build, pktVars, restoreVars, deltaVars, refsBody, requests,
                   master_ref, packed_bytes, cloneObjects, materialized>>

\* run, lines 86-87, FileTree::write_all: self.write(object)? for the next object
CloneTree ==
    /\ pc = "tree"
    /\ materialized < Len(cloneObjects)
    /\ FsStep(FileTreeWrite(disk, cloneObjects, cloneObjects[materialized + 1]),
              IF materialized + 1 < Len(cloneObjects) THEN "tree" ELSE "done")
    /\ materialized' = materialized + 1
    /\ UNCHANGED <<applyVars, storeVars, encodeVars, packVars, build, pktVars, restoreVars, deltaVars, refsBody, requests,
                   master_ref, packed_bytes, cloneObjects, written>>

Next ==
    \/ CloneStart
    \/ CloneDiscover
    \/ ClonePost
    \/ CloneHttpError
    \/ CloneTry
    \/ ClonePull
    \/ CloneStreamEnd
    \/ CloneDecode
    \/ CloneWrite
    \/ CloneTree

Spec == Init /\ [][Next]_vars

\* the files of the object store; the directories and files of the working tree
ObjectFiles(f) == { x \in f.files : StartsWith(x.path, GIT_OBJ_DIR) }

WorkDirs(f) == { p \in f.dirs : p # RootDir /\ ~StartsWith(p, GIT_DIR) }

WorkFiles(f) == { x \in f.files : ~StartsWith(x.path, GIT_DIR) }

\* obj is in the store of f, as GitObject::write leaves it
Stored(f, obj) ==
    [path    |-> ObjectPath(HashHex(Hash(obj))),
     content |-> ZlibEncode(Header(obj) \o Serialize(obj))] \in f.files

\* GitObject::open_from_hash: res "none" when there is no such file
StoredObject(f, hex) ==
    LET found == { x \in f.files : x.path = ObjectPath(hex) }
    IN  IF found = {} THEN [res |-> "none", obj |-> NoObject]
        ELSE LET z == ZlibDecode((CHOOSE x \in found : TRUE).content)
             IN  IF z.ok THEN GitObjectNew(z.data) ELSE [res |-> "err", obj |-> NoObject]

\* the payloads of the channel-1 lines of ls, without the band byte, in order
Band1Payloads(ls) ==
    Flatten([i \in 1..Len(ls) |->
                IF PktLineSplitFirst(ls[i]).some /\ PktLineSplitFirst(ls[i]).first = 1
                THEN PktLineSplitFirst(ls[i]).rest ELSE <<>>])

\* the lines of a body that reception takes: up to the first line without payload
ReceptionOf(ls) ==
    LET ends == { i \in 1..Len(ls) : ~PktLineSplitFirst(ls[i]).some }
    IN  IF ends = {} THEN ls ELSE Take(ls, Least(ends))

\* C4: in every clone run the POST is sent only after discovery is complete
\* (the GET is made and the master ref of its body is known); the pack is
\* decoded only after reception has ended and the whole pack buffer is
\* assembled; the working tree is touched only after every decoded object is
\* in the object store.
C4_StepsInOrder ==
    /\ \A i \in 1..Len(requests) :
          requests[i].method = "POST" =>
              /\ i = 2
              /\ requests[1].method = "GET"
              /\ master_ref # <<>>
              /\ master_ref = get_master_ref(PktLinesNew(refsBody), Checked).val
    /\ (cloneObjects # <<>> \/ pc \in {"write", "tree", "done"}) =>
          /\ emitted = ReceptionOf(PktLinesCollect(PktLinesNew(wire), Checked))
          /\ packed_bytes = Band1Payloads(ReceptionOf(PktLinesCollect(PktLinesNew(wire), Checked)))
    /\ (materialized > 0 \/ pc \in {"tree", "done"} \/ WorkFiles(disk) # {} \/ WorkDirs(disk) # {}) =>
          \A i \in 1..Len(cloneObjects) : Stored(disk, cloneObjects[i])

\* a clone of a pack of four cloneObjects or more has come to its end with files
\* in the working tree
C4_Witness ==
    /\ pc = "done"
    /\ Len(requests) = 2
    /\ Len(cloneObjects) >= 4
    /\ WorkFiles(disk) # {}

\* the tree with this hash and all it holds, directories included, is in the store of f
RECURSIVE TreeClosed(_, _)
TreeClosed(f, hex) ==
    /\ StoredObject(f, hex).res = "ok"
    /\ StoredObject(f, hex).obj.kind = "tree"
    /\ \A i \in 1..Len(StoredObject(f, hex).obj.trees) :
          LET entry == StoredObject(f, hex).obj.trees[i]
          IN  IF entry.mode = "Directory" THEN TreeClosed(f, HashHex(entry.hash))
              ELSE /\ StoredObject(f, HashHex(entry.hash)).res = "ok"
                   /\ StoredObject(f, HashHex(entry.hash)).obj.kind = "blob"

\* C5: after clone has returned Ok, the fetched commit is in the store with
\* every tree and blob that can be reached from its tree, and every file of
\* the working tree holds the bytes of a blob of the store.
C5_ReachableStored ==
    pc = "done" =>
        /\ StoredObject(disk, master_ref).res = "ok"
        /\ StoredObject(disk, master_ref).obj.kind = "commit"
        /\ TreeClosed(disk, StoredObject(disk, master_ref).obj.commit.tree)
        /\ \A x \in WorkFiles(disk) : Stored(disk, Blob(x.content))

\* the place in objs of the first object with this hash, 0 when there is none
ObjectAt(objs, hash) ==
    LET found == { k \in 1..Len(objs) : Hash(objs[k]) = hash }
    IN  IF found = {} THEN 0 ELSE Least(found)

\* every entry of tree whose object is among objs is on disk below path:
\* a directory with all its entries, or a file with the bytes of the blob
RECURSIVE EntriesOnDisk(_, _, _, _)
EntriesOnDisk(f, objs, tree, path) ==
    \A i \in 1..Len(tree.trees) :
        LET k == ObjectAt(objs, tree.trees[i].hash)
            p == Append(path, tree.trees[i].name)
        IN  k # 0 =>
                IF objs[k].kind = "tree"
                THEN p \in f.dirs /\ EntriesOnDisk(f, objs, objs[k], p)
                ELSE [path |-> p, content |-> objs[k].blob] \in f.files

\* C6: after FileTree::write_all has returned Ok, every blob and directory
\* that can be reached from the root tree of the checked-out commit is on
\* disk at the path made of the entry names from the root down, also when
\* two entries name the same object.
C6_EveryEntryOnDisk ==
    pc = "done" =>
        \A k, t \in 1..Len(cloneObjects) :
            (/\ cloneObjects[k].kind = "commit"
             /\ HashHex(Hash(cloneObjects[k])) = master_ref
             /\ cloneObjects[t].kind = "tree"
             /\ HashHex(Hash(cloneObjects[t])) = cloneObjects[k].commit.tree)
                => EntriesOnDisk(disk, cloneObjects, cloneObjects[t], RootDir)

\* C8: while the answer to the POST is received, the pack buffer is the
\* payloads, without the band byte, of the channel-1 lines received so far,
\* in the order they came; lines of channel 2 and the NAK line add nothing.
C8_PackIsChannelOne ==
    packed_bytes = Band1Payloads(emitted)

\* the NAK line, progress text and two lines of channel 1 have been received
C8_Witness ==
    /\ pc = "try"
    /\ \E i \in 1..Len(emitted) : emitted[i] = Nak
    /\ \E i \in 1..Len(emitted) :
          PktLineSplitFirst(emitted[i]).some /\ PktLineSplitFirst(emitted[i]).first = 2
    /\ Cardinality({ i \in 1..Len(emitted) :
                       /\ PktLineSplitFirst(emitted[i]).some
                       /\ PktLineSplitFirst(emitted[i]).first = 1 }) = 2
    /\ packed_bytes # <<>>

\* a data line of a channel other than 1 and 2 (the NAK line is no data line)
IsOtherBand(line) ==
    /\ PktLineSplitFirst(line).some
    /\ PktLineSplitFirst(line).first \notin {1, 2}
    /\ PktLineToString(line) # <<48, 48, 48, 56, 78, 65, 75, 10>>

\* C9: a line whose first byte is a channel other than 1 and 2 ends clone
\* with the error for an unexpected band: it is the last line taken, no
\* object is in the store and nothing is in the working tree.
C9_OtherBandFails ==
    \A i \in 1..Len(emitted) :
        IsOtherBand(emitted[i]) =>
            /\ i = Len(emitted)
            /\ pc = "failed"
            /\ error = "UnexpectedBand"
            /\ ObjectFiles(disk) = {}
            /\ WorkFiles(disk) = {}
            /\ WorkDirs(disk) = {}

\* clone has failed on a line of channel 3 that came after the whole pack
C9_Witness ==
    /\ pc = "failed"
    /\ error = "UnexpectedBand"
    /\ IsOtherBand(emitted[Len(emitted)])
    /\ packed_bytes # <<>>

-----------------------------------------------------------------------------
(* PackFile::get_objects, record by record *)

MaxRecords == 3

\* a record of a type the reader has no arm for: the header, then a zlib stream
RawRecord(type, data) == RecordHeader(type, Len(data)) \o ZlibEncode(data)

\* an ofs-delta record: the header, the offset of the base, then a zlib stream
OfsDeltaRecord(offset, data) == RecordHeader(6, Len(data)) \o <<offset>> \o ZlibEncode(data)

\* a blob whose length does not fit the first header byte
BlobLong == Blob(<<108, 111, 110, 103, 32, 101, 110, 111, 117, 103, 104, 32, 116, 101, 120, 116, 10>>)

\* the records a pack is made of: blobs (one of them empty, one with a
\* header of two bytes), a tree, a commit, a ref-delta, a tag, an ofs-delta
\* and a record of type 5, which is no type at all
RecordItems ==
    { PackRecord(PackGitObject(BlobHi)),
      PackRecord(PackGitObject(Blob(<<>>))),
      PackRecord(PackGitObject(BlobLong)),
      PackRecord(PackGitObject(FlatTree)),
      PackRecord(PackGitObject(CommitOn(FlatTree))),
      PackRecord(RefDeltaOn(BlobHi, <<Insert(<<121, 111>>)>>)),
      RawRecord(4, <<116, 97, 103>>),
      OfsDeltaRecord(9, EncodeDelta(DeltaFor(BlobHi, <<Insert(<<121, 111>>)>>))),
      RawRecord(5, <<63>>) }

RecordSeqs == DistinctSeqs(RecordItems, MaxRecords)

\* "PACK", version 2, the count of records, the records, the checksum
PackBytes(records) ==
    LET body == <<80, 65, 67, 75>> \o <<0, 0, 0, 2>>
                \o <<0, 0, Len(records) \div 256, Len(records) % 256>>
                \o Flatten(records)
    IN  body \o Sha1(body)

InitPack ==
    /\ pc = "open"
    /\ build = "release"
    /\ PktIdle
    /\ RestoreIdle
    /\ DeltasIdle
    /\ disk = NoFs
    /\ refsBody = <<>>
    /\ requests = <<>>
    /\ master_ref = <<>>
    /\ packRecords \in RecordSeqs
    /\ packed_bytes \in {PackBytes(packRecords)}
                        \cup (IF packRecords = <<>> THEN {Take(PackBytes(<<>>), 8)} ELSE {})
    /\ cloneObjects = <<>>
    /\ written = 0
    /\ materialized = 0
    /\ error = "none"
    /\ packFile = [ok |-> FALSE, num_objects |-> 0, buf |-> <<>>, pos |-> 0]
    /\ StoreIdle
    /\ EncodeIdle
    /\ ApplyIdle

\* PackFile::get_objects, line 33: Self::new(bytes)
PackOpen ==
    /\ pc = "open"
    /\ packFile' = PackFileNew(packed_bytes)
    /\ pc' = IF PackFileNew(packed_bytes).ok THEN "next" ELSE "panic"
    /\ UNCHANGED <<applyVars, storeVars, encodeVars, build, pktVars, restoreVars, deltaVars, cloneVars, packRecords>>

\* collect, for what PackFile::next gave: the object is pushed, None ends
\* the collection
PackStepped(r) ==
    /\ packFile' = IF r.kind = "some" THEN r.pack ELSE packFile
    /\ packObjects' = IF r.kind = "some" THEN Append(packObjects, r.object) ELSE packObjects
    /\ pc' = CASE r.kind = "some" -> "next"
               [] r.kind = "none" -> "expand"
               [] OTHER -> "panic"

\* PackFile::get_objects, line 33: one PackFile::next made by collect
PackNext ==
    /\ pc = "next"
    /\ PackStepped(PackFileNext(packFile))
    /\ UNCHANGED <<applyVars, storeVars, encodeVars, build, pktVars, restoreVars, git_objects, deltas, deltasLeft,
                   cloneVars, packRecords>>

\* PackFile::get_objects, line 34, for what expand_deltas gave
PackExpanded(r) ==
    /\ git_objects' = r.git_objects
    /\ pc' = IF r.res = "ok" THEN "returned" ELSE "panic"

\* PackFile::get_objects, line 34: expand_deltas(objects)
PackExpand ==
    /\ pc = "expand"
    /\ PackExpanded(expand_deltas(packObjects))
    /\ UNCHANGED <<applyVars, storeVars, encodeVars, build, pktVars, restoreVars, packObjects, deltas, deltasLeft,
                   cloneVars, packVars>>

NextPack == PackOpen \/ PackNext \/ PackExpand

SpecPack == InitPack /\ [][NextPack]_vars

\* the type the first byte of a record names
RecordType(record) == ObjectTypeNew(record[1])

\* C12: when the pack holds a record of type tag, ofs-delta or of no known
\* type, PackFile::get_objects does not return normally: it never returns a
\* list of objects from a pack that holds such a record.
C12_UnsupportedIsFatal ==
    pc = "returned" =>
        \A i \in 1..Len(packRecords) :
            RecordType(packRecords[i]) \in {"Commit", "Tree", "Blob", "RefDelta"}

\* the bytes of the first k records of the pack
RecordBytes(k) == Len(Flatten(SubSeq(packRecords, 1, k)))

\* C20: while the pack is read, after every decoded record (of any declared
\* size, 0 included) the cursor is past the header of the record, its base
\* hash if it is a ref-delta, and its whole zlib stream: it is at the first
\* byte of the record that follows, and the count of records left is less by
\* one for each decoded record.
C20_CursorAtNextRecord ==
    (pc = "next" /\ packed_bytes = PackBytes(packRecords)) =>
        /\ packFile.pos = RecordBytes(Len(packObjects))
        /\ packFile.num_objects = Len(packRecords) - Len(packObjects)

\* an empty blob, a ref-delta and a blob with a header of two bytes have
\* been decoded one after the other
C20_Witness ==
    /\ pc = "next"
    /\ Len(packObjects) = 3
    /\ packFile.pos = Len(packFile.buf) - SHA1_HASH_SIZE
    /\ \E i \in 1..3 : IsRefDelta(packObjects[i])
    /\ \E i \in 1..3 : packObjects[i] = PackGitObject(Blob(<<>>))
    /\ \E i \in 1..3 : packObjects[i] = PackGitObject(BlobLong)

-----------------------------------------------------------------------------
(* The object store: cmd/init.rs and GitObject::write on one repository root *)

MaxOps == 3

\* the objects that are written: blobs (one empty, one whose size has two
\* digits), trees, commits (one with a parent and a message of two lines)
StoreObjects ==
    { Blob(<<>>), BlobLong, FlatTree, CommitOn(FlatTree),
      Commit(CommitOf(HashHex(Hash(DeepTree)), <<HashHex(Hash(CommitOn(FlatTree)))>>,
                      Someone, Someone, <<85, 112, 10, 109, 111, 114, 101>>)) }

InitStore ==
    /\ pc = "idle"
    /\ build = "release"
    /\ PktIdle
    /\ RestoreIdle
    /\ DeltasIdle
    /\ PackIdle
    /\ StoreIdle
    /\ EncodeIdle
    /\ ApplyIdle
    /\ disk \in InitialFs \ {NoFs}
    /\ refsBody = <<>>
    /\ requests = <<>>
    /\ master_ref = <<>>
    /\ packed_bytes = <<>>
    /\ cloneObjects = <<>>
    /\ written = 0
    /\ materialized = 0
    /\ error = "none"

\* the call gave r: the file system it leaves, and its Ok or Err
StoreDone(r) ==
    /\ disk' = r.fs
    /\ error' = IF r.ok THEN "none" ELSE "Io"

\* init::run(root)
StoreInit ==
    /\ written < MaxOps
    /\ StoreDone(InitRun(disk))
    /\ pc' = "init"
    /\ written' = written + 1
    /\ UNCHANGED <<applyVars, storeVars, encodeVars, build, pktVars, restoreVars, deltaVars, packVars, refsBody, requests,
                   master_ref, packed_bytes, cloneObjects, materialized>>

\* object.write(root) for some object; cloneObjects keeps the objects that
\* write was called for
StoreWrite ==
    /\ written < MaxOps
    /\ \E obj \in StoreObjects :
          /\ StoreDone(GitObjectWrite(disk, obj))
          /\ cloneObjects' = Append(cloneObjects, obj)
    /\ pc' = "write"
    /\ written' = written + 1
    /\ UNCHANGED <<applyVars, storeVars, encodeVars, build, pktVars, restoreVars, deltaVars, packVars, refsBody, requests,
                   master_ref, packed_bytes, materialized>>

\* GitObject::open_from_hash(root, hash) for the hash of an object that was
\* written and is in the store
StoreOpen ==
    /\ \E i \in 1..Len(cloneObjects) :
          /\ Stored(disk, cloneObjects[i])
          /\ opened' = [call |-> TRUE,
                        of   |-> cloneObjects[i],
                        got  |-> StoredObject(disk, HashHex(Hash(cloneObjects[i])))]
    /\ pc' = "open"
    /\ UNCHANGED <<applyVars, build, pktVars, restoreVars, deltaVars, packVars, cloneVars, encodeVars>>

NextStore == StoreInit \/ StoreWrite \/ StoreOpen

SpecStore == InitStore /\ [][NextStore]_vars

\* the file x of the object store is where its object belongs: its bytes
\* are the zlib stream of header || payload of an object that was written,
\* and its path is the fan-out directory (2 hex digits) and the file name
\* (38 hex digits) of the hash of these bytes
WellPlaced(x) ==
    /\ ZlibDecode(x.content).ok
    /\ \E i \in 1..Len(cloneObjects) :
          ZlibDecode(x.content).data = Header(cloneObjects[i]) \o Serialize(cloneObjects[i])
    /\ Len(HashHex(Sha1(ZlibDecode(x.content).data))) = 40
    /\ x.path = GIT_OBJ_DIR \o <<SubSeq(HashHex(Sha1(ZlibDecode(x.content).data)), 1, 2),
                                SubSeq(HashHex(Sha1(ZlibDecode(x.content).data)), 3, 40)>>

\* C13: after any sequence of init and write calls on a repository root,
\* every file under .git/objects is at <2 hex digits>/<38 hex digits> of the
\* hash h of its object and holds header || payload of the object with hash h.
C13_StoreWellFormed ==
    \A x \in ObjectFiles(disk) : WellPlaced(x)

\* three objects of three kinds are in the store
C13_Witness ==
    /\ Cardinality(ObjectFiles(disk)) = 3
    /\ \E i, j, k \in 1..Len(cloneObjects) :
          /\ cloneObjects[i].kind = "blob"
          /\ cloneObjects[j].kind = "tree"
          /\ cloneObjects[k].kind = "commit"

\* C14: writing an object that is in the store already gives Ok and leaves
\* the store, and all else on disk, as the first write left it.
C14_WriteIdempotent ==
    [][(pc' = "write" /\ Stored(disk, cloneObjects'[Len(cloneObjects')]))
          => (error' = "none" /\ disk' = disk)]_vars

\* an object has been written twice in a row, the second time with Ok
C14_Witness ==
    /\ pc = "write"
    /\ error = "none"
    /\ Len(cloneObjects) >= 2
    /\ cloneObjects[Len(cloneObjects)] = cloneObjects[Len(cloneObjects) - 1]
    /\ Stored(disk, cloneObjects[Len(cloneObjects)])

\* C15: parsing header(O) || serialize(O), as it is read back from the
\* store, gives an object equal to O, for blobs, trees and commits (for a
\* commit: the same tree, parents, author, committer and the whole message).
C15_ParseGivesObject ==
    opened.call => (opened.got.res = "ok" /\ opened.got.obj = opened.of)

\* the word that names the kind of an object in its header
KindWord(obj) ==
    CASE obj.kind = "blob" -> <<98, 108, 111, 98>>
      [] obj.kind = "tree" -> <<116, 114, 101, 101>>
      [] obj.kind = "commit" -> <<99, 111, 109, 109, 105, 116>>

\* C16: the hash of every object that write was called for is the digest of
\* "<kind> <size>\0" followed by serialize(O), size being the count of bytes
\* of serialize(O) in decimal; the file of the object is named by this hash
\* however often it is written.
C16_HashOfFramedPayload ==
    \A i \in 1..Len(cloneObjects) :
        /\ Hash(cloneObjects[i])
             = Sha1(KindWord(cloneObjects[i]) \o <<32>>
                    \o DecStr(Len(Serialize(cloneObjects[i]))) \o <<0>>
                    \o Serialize(cloneObjects[i]))
        /\ \A x \in ObjectFiles(disk) :
              ZlibDecode(x.content).data = Header(cloneObjects[i]) \o Serialize(cloneObjects[i])
                  => x.path = GIT_OBJ_DIR
                              \o <<SubSeq(HashHex(Hash(cloneObjects[i])), 1, 2),
                                   SubSeq(HashHex(Hash(cloneObjects[i])), 3, 40)>>

\* a tree, a commit and a blob whose size has two digits have been hashed
\* and written, one of them twice
C16_Witness ==
    /\ Len(cloneObjects) = 3
    /\ error = "none"
    /\ \E i, j \in 1..3 :
          /\ i # j
          /\ cloneObjects[i] = cloneObjects[j]
          /\ cloneObjects[i].kind \in {"tree", "commit"}
          /\ Stored(disk, cloneObjects[i])
    /\ \E i \in 1..3 : cloneObjects[i] = BlobLong /\ Stored(disk, BlobLong)


-----------------------------------------------------------------------------
(* Delta::new and Delta::restore on their own: a delta is decoded from its   *)
(* bytes and applied to the bytes of a base                                  *)

\* the bases a delta is applied to
ApplyBases == { <<>>, <<97>>, <<97, 98>>, <<65, 66, 67, 68, 69, 70, 71, 72>> }

\* the instructions a sender chooses from for the base buf
ApplyInsts(buf) ==
    { Insert(<<88>>), Insert(<<88, 89>>), Copy(0, 1), Copy(1, 1), Copy(2, 3) }
    \cup (IF buf = <<>> THEN {} ELSE { Copy(0, Len(buf)) })

\* the delta a sender writes for insts over buf: the sizes are those of buf and of
\* what the instructions give
SentDelta(buf, insts) ==
    EncodeDelta([base_size    |-> Len(buf),
                 target_size  |-> Len(RestoreLoop(insts, buf, <<>>).bytes),
                 instructions |-> insts])

\* a base of 16383 bytes, and the delta that copies all of it and its first byte again:
\* base size ff 7f, target size 16384 = 80 80 01, copy(0, 16383) = b0 ff 3f, copy(0, 1) = 90 01
LongBase == [i \in 1..16383 |-> 97]

LongDelta == <<255, 127, 128, 128, 1, 176, 255, 63, 144, 1>>

\* a delta whose header announces 5 bytes and whose one instruction inserts 1
ShortDelta == <<2, 5, 1, 120>>

\* deltas that end inside a size and inside an insert
CutDeltas == { <<130>>, <<2, 1, 3, 88>> }

\* ABCDEFGH under copy(2, 3), insert XY, copy(7, 1)
MixedDelta ==
    SentDelta(<<65, 66, 67, 68, 69, 70, 71, 72>>, <<Copy(2, 3), Insert(<<88, 89>>), Copy(7, 1)>>)

\* a base of 65536 bytes and the delta that copies all of it with one copy whose
\* size field is left out: sizes 80 80 04, copy byte 80
WideBase == [i \in 1..65536 |-> 97]

WideDelta == <<128, 128, 4, 128, 128, 4, 128>>

\* copies whose size takes two and three bytes, and whose offset bytes come first:
\* size 465, size 1 + 2 * 256 + 3 * 65536, offset 1 + 65536 with size 2, and an
\* offset 1 with no size byte
SizedDeltas ==
    { <<2, 2, 176, 209, 1>>, <<2, 2, 240, 1, 2, 3>>, <<2, 2, 149, 1, 1, 2>>, <<2, 2, 129, 1>> }

ApplyInputs ==
    { <<SentDelta(buf, insts), buf>> : buf \in ApplyBases,
                                        insts \in SeqsUpTo(UNION { ApplyInsts(b) : b \in ApplyBases }, MaxInsts) }
    \cup { <<LongDelta, LongBase>>, <<ShortDelta, <<97, 98>>>>,
           <<MixedDelta, <<65, 66, 67, 68, 69, 70, 71, 72>>>> }
    \cup { <<d, <<97, 98>>>> : d \in CutDeltas \cup SizedDeltas }
    \cup { <<WideDelta, WideBase>> }

InitApply ==
    /\ pc = "decode"
    /\ build = "release"
    /\ PktIdle
    /\ RestoreIdle
    /\ DeltasIdle
    /\ CloneIdle
    /\ PackIdle
    /\ StoreIdle
    /\ EncodeIdle
    /\ \E input \in ApplyInputs :
          /\ deltaBytes = input[1]
          /\ deltaBase = input[2]
    /\ deltaOut = [call |-> FALSE, ok |-> FALSE, bytes |-> <<>>]

\* Delta::new(&mut r): a read past the end of the bytes panics
DeltaDecoded(r) ==
    /\ restoreDelta' = r.val
    /\ pc' = IF r.ok THEN "apply" ELSE "panic"

DeltaDecode ==
    /\ pc = "decode"
    /\ DeltaDecoded(DeltaNew(deltaBytes))
    /\ UNCHANGED <<build, pktVars, restoreSelf, restoreResult, deltaVars, cloneVars, packVars,
                   storeVars, encodeVars, applyVars>>

\* delta.restore(buf): a copy outside buf panics
DeltaApplied(r) ==
    /\ deltaOut' = [call |-> TRUE, ok |-> r.ok, bytes |-> r.bytes]
    /\ pc' = IF r.ok THEN "done" ELSE "panic"

DeltaApply ==
    /\ pc = "apply"
    /\ DeltaApplied(DeltaRestore(restoreDelta, deltaBase))
    /\ UNCHANGED <<build, pktVars, restoreVars, deltaVars, cloneVars, packVars, storeVars,
                   encodeVars, deltaBytes, deltaBase>>

NextApply == DeltaDecode \/ DeltaApply

SpecApply == InitApply /\ [][NextApply]_vars

\* C17: whenever a decoded delta is applied to a base whose length is the delta's
\* base_size and restore returns, the output is target_size bytes long
C17_OutputHasTargetSize ==
    (deltaOut.call /\ deltaOut.ok /\ Len(deltaBase) = restoreDelta.base_size)
        => Len(deltaOut.bytes) = restoreDelta.target_size


-----------------------------------------------------------------------------
(* A sender formats pkt-lines with Display, as clone::run does for its       *)
(* request body, and a PktLines decoder reads what was sent                  *)

MaxSent == 2

\* the bytes of a payload: a letter, a line feed, and 0xff, which no UTF-8 text holds
SentBytes == { 97, 10, 255 }

\* a payload of 4092 bytes: its length prefix is "1000"
LongPayload == [i \in 1..4092 |-> 97]

SentLines ==
    { PktLineFlush, PktLineNew(LongPayload) }
    \cup { PktLineNew(p) : p \in SeqsUpTo(SentBytes, 2) }

\* format!("{}{}..", line, line, ..).into_bytes()
Encode(ls) == StrBytes(Flatten([i \in 1..Len(ls) |-> PktLineToString(ls[i])]))

InitEncode ==
    /\ pc = "send"
    /\ build \in {"debug", "release"}
    /\ PktIdle
    /\ RestoreIdle
    /\ DeltasIdle
    /\ CloneIdle
    /\ PackIdle
    /\ StoreIdle
    /\ ApplyIdle
    /\ \E ls \in SeqsUpTo(SentLines, MaxSent) : sent = [lines |-> ls, bytes |-> <<>>]

\* the lines are formatted and a decoder is made over the bytes: PktLines::from
EncodeSent(bytes) ==
    /\ sent' = [sent EXCEPT !.bytes = bytes]
    /\ lines' = PktLinesNew(bytes)
    /\ pc' = "next"

EncodeSend ==
    /\ pc = "send"
    /\ EncodeSent(Encode(sent.lines))
    /\ UNCHANGED <<build, wire, rest, emitted, last, restoreVars, deltaVars, cloneVars,
                   packVars, storeVars, applyVars>>

\* one PktLines::next of the reader
EncodeRead(r) ==
    /\ lines' = r.lines
    /\ emitted' = IF r.kind \in {"line", "flush"} THEN Append(emitted, r.line) ELSE emitted
    /\ pc' = CASE r.kind \in {"line", "flush"} -> "next"
               [] r.kind = "none" -> "end"
               [] OTHER -> "panic"

EncodeNext ==
    /\ pc = "next"
    /\ EncodeRead(PktLinesNext(lines, Checked))
    /\ UNCHANGED <<build, wire, rest, last, restoreVars, deltaVars, cloneVars, packVars,
                   storeVars, encodeVars, applyVars>>

NextEncode == EncodeSend \/ EncodeNext

SpecEncode == InitEncode /\ [][NextEncode]_vars

\* C18: once the reader is through with what was sent, the lines it gave are the
\* lines that were formatted, payload for payload and flush for flush
C18_DecodeOfEncode ==
    pc \in {"end", "panic"} => emitted = sent.lines


-----------------------------------------------------------------------------
(* FileTree::write_all and the object store *)

\* the directories of the object store
ObjectDirs(f) == { p \in f.dirs : StartsWith(p, GIT_OBJ_DIR) }

\* C19: no step of FileTree::write_all makes, removes or changes a file or a
\* directory below .git/objects
C19_TreeKeepsStore ==
    [][pc = "tree" => (ObjectFiles(disk') = ObjectFiles(disk) /\ ObjectDirs(disk') = ObjectDirs(disk))]_vars


-----------------------------------------------------------------------------
(* The sizes Delta::new reads *)

\* the index of the first byte at or after index i that has bit 7 clear
RECURSIVE SizeEnd(_, _)
SizeEnd(bytes, i) == IF bytes[i] < 128 THEN i ELSE SizeEnd(bytes, i + 1)

\* the index of the first instruction byte of a delta: after the two sizes
FirstInst(bytes) == SizeEnd(bytes, SizeEnd(bytes, 1) + 1) + 1

BitSet(byte, mask) == IF HasBit(byte, mask) THEN 1 ELSE 0

\* the size field of the copy instruction at index i: the offset bytes come first,
\* then one size byte for each of the bits 0x10, 0x20, 0x40, the low byte first
SizeField(bytes, i) ==
    LET cmd == bytes[i]
        s1  == i + BitSet(cmd, 1) + BitSet(cmd, 2) + BitSet(cmd, 4) + BitSet(cmd, 8) + 1
        s2  == s1 + BitSet(cmd, 16)
        s3  == s2 + BitSet(cmd, 32)
    IN  (IF HasBit(cmd, 16) THEN bytes[s1] ELSE 0)
        + (IF HasBit(cmd, 32) THEN bytes[s2] * 256 ELSE 0)
        + (IF HasBit(cmd, 64) THEN bytes[s3] * 65536 ELSE 0)

\* a delta was decoded and its first instruction is a copy
FirstIsCopy ==
    /\ pc = "apply" \/ deltaOut.call
    /\ restoreDelta.instructions # <<>>
    /\ restoreDelta.instructions[1].op = "copy"

\* C21: the size of a decoded copy is its size field, read low byte first from
\* the bytes after the offset, and 0x10000 when that field is zero
C21_CopySize ==
    FirstIsCopy =>
        restoreDelta.instructions[1].size =
            (IF SizeField(deltaBytes, FirstInst(deltaBytes)) = 0
             THEN 65536
             ELSE SizeField(deltaBytes, FirstInst(deltaBytes)))


\* the number whose groups of 7 bits, the low group first, start at index i and
\* end with the first byte that has bit 7 clear
RECURSIVE VarValue(_, _)
VarValue(bytes, i) ==
    IF bytes[i] < 128 THEN bytes[i] ELSE (bytes[i] % 128) + 128 * VarValue(bytes, i + 1)

\* C22: the base size and the target size of a decoded delta are the numbers
\* their bytes spell, the k-th byte counting at shift 7 * k
C22_SizesAreVarints ==
    (pc = "apply" \/ deltaOut.call) =>
        /\ restoreDelta.base_size = VarValue(deltaBytes, 1)
        /\ restoreDelta.target_size = VarValue(deltaBytes, SizeEnd(deltaBytes, 1) + 1)


-----------------------------------------------------------------------------
(* What Delta::restore returns *)

\* what instruction inst stands for over the base buf
PieceOf(inst, buf) ==
    IF inst.op = "copy" THEN SubSeq(buf, inst.offset + 1, inst.offset + inst.size)
    ELSE inst.bytes

\* C23: when restore returns, its result is the pieces of the instructions one
\* after another in their order; ABCDEFGH under copy(2, 3), insert XY,
\* copy(7, 1) gives CDEXYH
C23_RestoreConcatenates ==
    (deltaOut.call /\ deltaOut.ok) =>
        /\ deltaOut.bytes =
               Flatten([i \in 1..Len(restoreDelta.instructions) |->
                           PieceOf(restoreDelta.instructions[i], deltaBase)])
        /\ deltaBytes = MixedDelta => deltaOut.bytes = <<67, 68, 69, 88, 89, 72>>

C23_Witness ==
    /\ pc = "done"
    /\ deltaBytes = MixedDelta
    /\ deltaBase = <<65, 66, 67, 68, 69, 70, 71, 72>>
    /\ restoreDelta.instructions = <<Copy(2, 3), Insert(<<88, 89>>), Copy(7, 1)>>
    /\ deltaOut.bytes = <<67, 68, 69, 88, 89, 72>>


-----------------------------------------------------------------------------
(* FileTree::write: the parent before the object *)

\* the paths of the directories and files of f
PathsOf(f) == f.dirs \cup { x.path : x \in f.files }

\* the object FileTree::write_all is about to write has a parent among the objects
HasParent(objects, k) == ParentAt(objects, Hash(objects[k])) # 0

\* C24: in every FileTree::write, each file or directory the call makes lies in a
\* directory that is there, and the directory of the object's parent is there
\* once the call is over
C24_ParentFirst ==
    [][pc = "tree" =>
          /\ \A p \in PathsOf(disk') \ PathsOf(disk) : Parent(p) \in disk'.dirs
          /\ HasParent(cloneObjects, materialized + 1) =>
                 path_of(cloneObjects,
                         cloneObjects[ParentAt(cloneObjects, Hash(cloneObjects[materialized + 1]))])
                     \in disk'.dirs]_vars

\* the first object written is the blob d/f: one call made d and then d/f
C24_Witness ==
    /\ pc = "tree"
    /\ materialized = 1
    /\ cloneObjects[1] = BlobYo
    /\ << <<100>> >> \in disk.dirs
    /\ \E x \in disk.files : x.path = << <<100>>, <<102>> >> /\ x.content = <<121, 111>>


-----------------------------------------------------------------------------
(* clone::run when the server shows no master branch *)

RefsHeadsMaster == <<114, 101, 102, 115, 47, 104, 101, 97, 100, 115, 47, 109, 97, 115, 116, 101, 114>>

\* the answer to GET info/refs has arrived and refs/heads/master is nowhere in it
NoMasterReceived ==
    /\ pc \notin {"start", "discover"}
    /\ Len(requests) >= 1
    /\ error # "Http"
    /\ ~Contains(refsBody, RefsHeadsMaster)

\* C25: when no line of the answer to GET info/refs holds refs/heads/master, run
\* returns an error, the GET is the only request made, and no object and no file
\* or directory of the working tree is written
C25_NoMasterIsError ==
    NoMasterReceived =>
        /\ pc = "failed"
        /\ error = "NoMasterRef"
        /\ Len(requests) = 1
        /\ ObjectFiles(disk) = {}
        /\ WorkFiles(disk) = {}
        /\ WorkDirs(disk) = {}


-----------------------------------------------------------------------------
(* What ends the reception of the answer to the POST *)

\* the loop of run is over and PackFile::get_objects comes next
ReceptionOver == pc = "decode"

\* the body stream is at its end and the decoder has no whole line left
BodyOver == rest = <<>> /\ PktLinesNext(lines, Checked).kind = "none"

\* C26: when the loop of run is left for PackFile::get_objects, the line read
\* last is the flush line, or the body is over; no other line ends the loop
C26_EndedByFlushOrEnd ==
    ReceptionOver =>
        \/ emitted # <<>> /\ emitted[Len(emitted)] = PktLineFlush
        \/ BodyOver


-----------------------------------------------------------------------------
(* The working tree and the commit that is checked out *)

\* the paths of the entries of tree, and of the trees below it, under path
RECURSIVE PathsUnder(_, _, _)
PathsUnder(objs, tree, path) ==
    UNION { LET k == ObjectAt(objs, tree.trees[i].hash)
                p == Append(path, tree.trees[i].name)
            IN  {p} \cup (IF k # 0 /\ objs[k].kind = "tree" THEN PathsUnder(objs, objs[k], p)
                          ELSE {})
            : i \in 1..Len(tree.trees) }

\* the paths of the tree of the commit that refs/heads/master names
MasterPaths ==
    UNION { PathsUnder(cloneObjects, cloneObjects[t], RootDir) :
                t \in { t \in 1..Len(cloneObjects) :
                          /\ cloneObjects[t].kind = "tree"
                          /\ \E k \in 1..Len(cloneObjects) :
                                /\ cloneObjects[k].kind = "commit"
                                /\ HashHex(Hash(cloneObjects[k])) = master_ref
                                /\ cloneObjects[k].commit.tree = HashHex(Hash(cloneObjects[t])) } }

\* C27: every file and directory of the working tree that clone leaves lies on a
\* path of the tree of the master commit
C27_OnlyMasterTree ==
    pc = "done" =>
        /\ \A x \in WorkFiles(disk) : x.path \in MasterPaths
        /\ WorkDirs(disk) \subseteq MasterPaths


-----------------------------------------------------------------------------
(* cmd/write_tree.rs and cmd/hash_object.rs run in a directory with files    *)

MaxCmds == 3

\* str::cmp: byte by byte, the shorter one first when one is the start of the other
RECURSIVE LexLess(_, _)
LexLess(a, b) ==
    IF b = <<>> THEN FALSE
    ELSE IF a = <<>> THEN TRUE
    ELSE IF Head(a) # Head(b) THEN Head(a) < Head(b)
    ELSE LexLess(Tail(a), Tail(b))

\* the names of S in the order trees.sort() gives
RECURSIVE SortedNames(_)
SortedNames(S) ==
    IF S = {} THEN <<>>
    ELSE LET first == CHOOSE n \in S : \A m \in S \ {n} : LexLess(n, m)
         IN  <<first>> \o SortedNames(S \ {first})

\* fs::read_dir(path) without the entries is_git_file holds back
DirNames(fs, path) ==
    { p[Len(p)] : p \in { q \in PathsOf(fs) : Len(q) = Len(path) + 1 /\ StartsWith(q, path) } }
    \ { <<46, 103, 105, 116>> }

FileAt(fs, path) == CHOOSE x \in fs.files : x.path = path

\* GitObject::new_tree(path): one TreeNode for each entry, TryFrom<DirEntry>, sorted
\* by name; the hash of a directory is that of new_tree on it, the hash of a file
\* that of new_blob on its content
RECURSIVE new_tree(_, _)
TreeNodeFrom(fs, path) ==
    IF path \in fs.dirs
    THEN TreeNode("Directory", path[Len(path)], Hash(new_tree(fs, path)))
    ELSE TreeNode("File", path[Len(path)], Hash(Blob(FileAt(fs, path).content)))

new_tree(fs, path) ==
    LET names == SortedNames(DirNames(fs, path))
    IN  Tree([i \in 1..Len(names) |-> TreeNodeFrom(fs, Append(path, names[i]))])

\* the files and directories a working directory may hold: a, b, d, d/f
WorkChoices ==
    { [dirs |-> ds, files |-> fl] :
        ds \in { {}, { << <<100>> >> } },
        fl \in SUBSET { [path |-> << <<97>> >>, content |-> <<104, 105>>],
                        [path |-> << <<98>> >>, content |-> <<121, 111>>],
                        [path |-> << <<100>>, <<102>> >>, content |-> <<121, 111>>] } }

\* a root directory, with or without a repository, and the working files in it
WorkFs ==
    { [dirs |-> base.dirs \cup w.dirs, files |-> base.files \cup w.files] :
        base \in InitialFs \ {NoFs},
        w \in { w \in WorkChoices :
                  \A x \in w.files : Len(x.path) = 2 => Parent(x.path) \in w.dirs } }

InitTree ==
    /\ pc = "idle"
    /\ build = "release"
    /\ PktIdle
    /\ RestoreIdle
    /\ DeltasIdle
    /\ PackIdle
    /\ StoreIdle
    /\ EncodeIdle
    /\ ApplyIdle
    /\ disk \in WorkFs
    /\ refsBody = <<>>
    /\ requests = <<>>
    /\ master_ref = <<>>
    /\ packed_bytes = <<>>
    /\ cloneObjects = <<>>
    /\ written = 0
    /\ materialized = 0
    /\ error = "none"

\* obj.write() of a command, and where the command ends
CmdWrote(r, obj, done) ==
    /\ disk' = r.fs
    /\ error' = IF r.ok THEN "none" ELSE "Io"
    /\ cloneObjects' = IF r.ok THEN Append(cloneObjects, obj) ELSE cloneObjects
    /\ pc' = IF r.ok THEN done ELSE "failed"

\* hash_object::run(path) for a file of the working directory
HashObjectRun ==
    /\ written < MaxCmds
    /\ \E x \in WorkFiles(disk) :
          CmdWrote(GitObjectWrite(disk, Blob(x.content)), Blob(x.content), "hashed")
    /\ written' = written + 1
    /\ UNCHANGED <<build, pktVars, restoreVars, deltaVars, packVars, storeVars, encodeVars,
                   applyVars, refsBody, requests, master_ref, packed_bytes, materialized>>

\* write_tree::run()
WriteTreeRun ==
    /\ written < MaxCmds
    /\ CmdWrote(GitObjectWrite(disk, new_tree(disk, RootDir)), new_tree(disk, RootDir), "wrote")
    /\ written' = written + 1
    /\ UNCHANGED <<build, pktVars, restoreVars, deltaVars, packVars, storeVars, encodeVars,
                   applyVars, refsBody, requests, master_ref, packed_bytes, materialized>>

NextTree == HashObjectRun \/ WriteTreeRun

SpecTree == InitTree /\ [][NextTree]_vars

\* C28: after write-tree has succeeded, the tree it wrote is in the object store,
\* and so is every blob and every tree below it
C28_WrittenTreeClosed ==
    pc = "wrote" => TreeClosed(disk, HashHex(Hash(cloneObjects[Len(cloneObjects)])))

====
